---- MODULE Spec2Model ----
(***************************************************************************)
(* Primate society simulation: the agent life-cycle engine of entities.py, *)
(* the environment of environment.py and the tick loop of main.py.         *)
(*                                                                         *)
(* Python floats are modelled as fixed-point integers:                     *)
(*   hp        in units of 1/HScale   (0.1 hp)                             *)
(*   energy    in units of 1/EScale   (0.00001 energy)                     *)
(*   age       in units of 1/AScale   (0.001 year)                         *)
(*   position  in units of 1/PScale   (1/40 pixel), velocity likewise      *)
(*   unit vectors in units of 1/NScale                                     *)
(* Probabilities and the hunger threshold are exact rationals: a           *)
(* distribution is a sequence of integer weights w over a common           *)
(* denominator d (probability w[k]/d), the hunger threshold a fraction     *)
(* [n, d].  A uniform variate random.random() is a percentage u in 0..99   *)
(* standing for u/100.                                                     *)
(***************************************************************************)
EXTENDS Integers, Sequences, FiniteSets, TLC

VARIABLES
    agents,        \* main.py run_simulation: the list `agents`
    resources,     \* Environment.resources
    spawn_timer,   \* Environment.spawn_timer
    next_rid,      \* identity of the next Resource object created
    next_id,       \* Agent._next_id
    frame_count,   \* run_simulation: frame_count
    pc,            \* position inside one iteration of the main loop
    idx,           \* cursor of `for agent in agents` / of the sweep's outer loop
    jdx,           \* cursor of the learning sweep's inner loop
    mated,         \* handle_reproduction: mated_this_cycle
    new_agents,    \* handle_reproduction: new_agents
    ticks,         \* number of main-loop iterations completed in this run
    removed,       \* identities of the resources removed from the environment
    last,          \* the last call made and the state it started from
    hist,          \* what the run has seen: lethal hits, turns, flee episodes
    species_config, \* config.SPECIES_CONFIG
    config_screen  \* the ConfigScreen that main() is showing

vars == <<agents, resources, spawn_timer, next_rid, next_id, frame_count,
          pc, idx, jdx, mated, new_agents, ticks, removed, last, hist,
          species_config, config_screen>>

-----------------------------------------------------------------------------
(* Bounds of the model *)

MaxTicks == 2
MaxAgents == 5

-----------------------------------------------------------------------------
(* Fixed-point units *)

HScale == 10
EScale == 100000
AScale == 1000
PScale == 40
NScale == 1000

None == <<>>

-----------------------------------------------------------------------------
(* config.py *)

SCREEN_HEIGHT == 800
MAP_WIDTH == 800
RESOURCE_SPAWN_INTERVAL == 60
RESOURCE_MAX_PLANT == 100
RESOURCE_MAX_MEAT == 40
RESOURCE_PLANT_NUTRITION == 30
RESOURCE_MEAT_NUTRITION == 60
\* LEARNING_RATE = 0.1 = LEARNING_RATE_NUM / LEARNING_RATE_DEN
LEARNING_RATE_NUM == 1
LEARNING_RATE_DEN == 10
INTERACTION_RADIUS == 80
\* METABOLISM_RATE = 0.1667/10 energy per frame, in energy units
METABOLISM_RATE == 1667
\* AGE_INCREMENT = 0.022 year per frame, in age units
\* a faulty variant: age counted in frames, one per tick
AGE_INCREMENT_per_frame == 1 * AScale

AGE_INCREMENT == 22
MIN_REPRODUCTION_AGE == 12
MATING_RANGE == 100
\* REPRODUCTION_ENERGY_COST = 0.2, REPRODUCTION_HP_COST = 0.1, in percent
REPRODUCTION_ENERGY_COST == 20
REPRODUCTION_HP_COST == 10
\* MUTATION_RATE = 0.1 = 1 / MUTATION_RATE_DEN
MUTATION_RATE_DEN == 10

\* base_speed is held in position units per frame (1.5 px = 60/PScale)
SPECIES_CONFIG ==
    [Gorilla |-> [max_hp |-> 150, max_energy |-> 100, base_speed |-> 60,
                  attack_power |-> 12, defense |-> 20, view_range |-> 120,
                  max_age |-> 1800, diet |-> {"plant"},
                  reproduction_cooldown |-> 3],
     Chimp   |-> [max_hp |-> 100, max_energy |-> 120, base_speed |-> 120,
                  attack_power |-> 10, defense |-> 10, view_range |-> 110,
                  max_age |-> 1575, diet |-> {"plant", "meat"},
                  reproduction_cooldown |-> 2],
     Bonobo  |-> [max_hp |-> 80, max_energy |-> 110, base_speed |-> 100,
                  attack_power |-> 6, defense |-> 15, view_range |-> 140,
                  max_age |-> 1800, diet |-> {"plant"},
                  reproduction_cooldown |-> 3]]

FORAGING_STRATEGIES == <<"WideView", "FastMove", "RandomWalk", "Ambush">>
COMBAT_STRATEGIES == <<"Aggressive", "Defensive", "Group">>
FLEE_STRATEGIES == <<"Speed", "Hide", "Scatter">>

Contexts == <<"foraging", "combat", "flee">>

StrategiesOf(context) ==
    CASE context = "foraging" -> FORAGING_STRATEGIES
      [] context = "combat" -> COMBAT_STRATEGIES
      [] context = "flee" -> FLEE_STRATEGIES

-----------------------------------------------------------------------------
(* Arithmetic helpers *)

Abs(x) == IF x < 0 THEN -x ELSE x
Min2(a, b) == IF a <= b THEN a ELSE b
Max2(a, b) == IF a >= b THEN a ELSE b

\* integer division rounding toward zero
TDiv(a, b) == IF a >= 0 THEN a \div b ELSE -((-a) \div b)

RECURSIVE GCD(_, _)
GCD(a, b) == IF b = 0 THEN Abs(a) ELSE GCD(b, a % b)

RECURSIVE SumSeq(_)
SumSeq(s) == IF s = <<>> THEN 0 ELSE Head(s) + SumSeq(Tail(s))

RECURSIVE GCDSeq(_)
GCDSeq(s) == IF s = <<>> THEN 0 ELSE GCD(Head(s), GCDSeq(Tail(s)))

\* floor of the square root (math.sqrt on the fixed-point grid)
RECURSIVE IsqrtFrom(_, _)
IsqrtFrom(n, r) == IF r * r <= n THEN r ELSE IsqrtFrom(n, (r + n \div r) \div 2)
Isqrt(n) == IF n <= 0 THEN 0 ELSE IsqrtFrom(n, Min2(n, 46340))

\* a/b < c/d for b > 0, d > 0, by continued-fraction expansion, so that no
\* product of two large numbers is formed
RECURSIVE FracLT(_, _, _, _)
FracLT(a, b, c, d) ==
    LET qa == a \div b
        qc == c \div d
        ra == a % b
        rc == c % d
    IN IF qa # qc THEN qa < qc
       ELSE IF rc = 0 THEN FALSE
       ELSE IF ra = 0 THEN TRUE
       ELSE FracLT(d, rc, b, ra)

FracLE(a, b, c, d) == ~FracLT(c, d, a, b)

\* the element of a one-element set: Only({F(v) : v \in {e}}) is F(e) with e
\* evaluated once
Only(S) == CHOOSE x \in S : TRUE

\* a fraction [n, d] in lowest terms
Frac(n, d) == LET g == GCD(n, d) IN [n |-> n \div g, d |-> d \div g]

\* the first index of the minimal key: the element Python's min(list, key=...)
\* returns, given the keys of the list in order
ArgMin(keys) ==
    CHOOSE k \in 1..Len(keys) :
        /\ \A j \in 1..Len(keys) : keys[k] <= keys[j]
        /\ \A j \in 1..(k - 1) : keys[j] > keys[k]

-----------------------------------------------------------------------------
(* utils.py *)

\* utils.distance, squared: distances are only ever compared
distance2(p1, p2) ==
    LET dx == p2[1] - p1[1]
        dy == p2[2] - p1[2]
    IN dx * dx + dy * dy

\* distance(p1, p2) < r and <= r, r in position units
DistLT(p1, p2, r) == distance2(p1, p2) < r * r
DistLE(p1, p2, r) == distance2(p1, p2) <= r * r

\* utils.normalize: a unit vector in units of 1/NScale
normalize(v) ==
    LET magnitude == Isqrt(v[1] * v[1] + v[2] * v[2])
    IN IF magnitude = 0 THEN <<0, 0>>
       ELSE <<TDiv(v[1] * NScale, magnitude), TDiv(v[2] * NScale, magnitude)>>

add(v1, v2) == <<v1[1] + v2[1], v1[2] + v2[2]>>
sub(v1, v2) == <<v1[1] - v2[1], v1[2] - v2[2]>>

\* utils.scale of a unit vector by a length s in position units
scale(v, s) == <<TDiv(v[1] * s, NScale), TDiv(v[2] * s, NScale)>>

clamp(value, min_val, max_val) == Max2(min_val, Min2(max_val, value))

\* utils.random_position with variates ux, uy
random_position(min_x, min_y, max_x, max_y, ux, uy) ==
    <<min_x * PScale + ((max_x - min_x) * PScale * ux) \div 100,
      min_y * PScale + ((max_y - min_y) * PScale * uy) \div 100>>

-----------------------------------------------------------------------------
(* entities.py: Agent *)

Config(a) == SPECIES_CONFIG[a.species]
MaxHp(a) == Config(a).max_hp * HScale
MaxEnergy(a) == Config(a).max_energy * EScale

\* Agent.pick_strategy: random.choices(strategies, weights=probabilities)
\* with variate u: bisect of u * total in the cumulative weights
pick_strategy(a, context, u) ==
    LET w == a.strategy_probs[context].w
        n == Len(w)
        total == SumSeq(w)
        below == {k \in 1..(n - 1) : 100 * SumSeq(SubSeq(w, 1, k)) <= u * total}
    IN StrategiesOf(context)[Cardinality(below) + 1]

\* Agent.__init__: hunger threshold, distributions and the three picks are
\* the constructor's random draws
Agent(id, species, position, hunger, probs, r) ==
    LET a0 == [id |-> id, species |-> species, position |-> position,
               velocity |-> <<0, 0>>,
               hp |-> SPECIES_CONFIG[species].max_hp * HScale,
               energy |-> SPECIES_CONFIG[species].max_energy * EScale,
               age |-> 0, state |-> "idle",
               hunger_threshold |-> hunger,
               strategy_probs |-> probs,
               current_foraging_strategy |-> "WideView",
               current_combat_strategy |-> "Aggressive",
               current_flee_strategy |-> "Speed",
               wander_target |-> None,
               threat_position |-> None,
               last_attacker |-> 0,
               stats |-> [communications |-> 0, attacks |-> 0, meals |-> 0,
                          escapes |-> 0, offspring |-> 0],
               time_since_last_reproduction |-> 0,
               total_offspring |-> 0,
               escape_counted |-> FALSE]
    IN [a0 EXCEPT
          !.current_foraging_strategy = pick_strategy(a0, "foraging", r.pickF),
          !.current_combat_strategy = pick_strategy(a0, "combat", r.pickC),
          !.current_flee_strategy = pick_strategy(a0, "flee", r.pickS)]

\* a fitness that counts the hp ratio twice
calculate_fitness_hp_twice(a) ==
    LET g == GCD(MaxHp(a), MaxEnergy(a))
        hm == MaxEnergy(a) \div g
        em == MaxHp(a) \div g
    IN [n |-> 2 * a.hp * hm + a.energy * em, d |-> MaxHp(a) * hm]

\* Agent.calculate_fitness as the fraction n/d, d the least common multiple
\* of max_hp and max_energy
calculate_fitness(a) ==
    LET g == GCD(MaxHp(a), MaxEnergy(a))
        hm == MaxEnergy(a) \div g
        em == MaxHp(a) \div g
    IN [n |-> a.hp * hm + a.energy * em, d |-> MaxHp(a) * hm]

\* (1 - alpha) * x + alpha * y on fractions
Blend(x, y) ==
    Frac((LEARNING_RATE_DEN - LEARNING_RATE_NUM) * x.n * y.d
            + LEARNING_RATE_NUM * y.n * x.d,
         LEARNING_RATE_DEN * x.d * y.d)

\* a faulty variant: the weights of student and teacher are exchanged
BlendDist_swapped(p, q) ==
    LET raw == [k \in 1..Len(p.w) |->
                  LEARNING_RATE_NUM * p.w[k] * q.d
                      + (LEARNING_RATE_DEN - LEARNING_RATE_NUM) * q.w[k] * p.d]
        den == LEARNING_RATE_DEN * p.d * q.d
        g == GCD(GCDSeq(raw), den)
    IN [w |-> [k \in 1..Len(raw) |-> raw[k] \div g], d |-> den \div g]

\* the blend of one context's distribution, on a common denominator
BlendDist(p, q) ==
    LET raw == [k \in 1..Len(p.w) |->
                  (LEARNING_RATE_DEN - LEARNING_RATE_NUM) * p.w[k] * q.d
                      + LEARNING_RATE_NUM * q.w[k] * p.d]
        den == LEARNING_RATE_DEN * p.d * q.d
        g == GCD(GCDSeq(raw), den)
    IN [w |-> [k \in 1..Len(raw) |-> raw[k] \div g], d |-> den \div g]

\* a faulty variant: a teacher of equal fitness is learned from
TeacherIsFitter_or_equal(student, teacher) ==
    LET ft == calculate_fitness(teacher)
        fs == calculate_fitness(student)
    IN FracLE(fs.n, fs.d, ft.n, ft.d)

\* the guard of Agent.learn_from
TeacherIsFitter(student, teacher) ==
    LET ft == calculate_fitness(teacher)
        fs == calculate_fitness(student)
    IN ~FracLE(ft.n, ft.d, fs.n, fs.d)

\* Agent.learn_from: the student after learning from the teacher
learn_from(student, teacher) ==
    IF ~TeacherIsFitter(student, teacher) THEN student
    ELSE [student EXCEPT
            !.strategy_probs =
                [context \in DOMAIN student.strategy_probs |->
                    BlendDist(student.strategy_probs[context],
                              teacher.strategy_probs[context])],
            !.hunger_threshold =
                Blend(student.hunger_threshold, teacher.hunger_threshold),
            !.stats.communications = @ + 1]

\* a faulty variant: energy and hp are not looked at
can_reproduce_any_vitals(a) ==
    /\ a.state # "dead"
    /\ a.age > MIN_REPRODUCTION_AGE * AScale
    /\ a.age < (MIN_REPRODUCTION_AGE + 10) * AScale
    /\ a.time_since_last_reproduction > Config(a).reproduction_cooldown * AScale

\* a faulty variant: energy and hp of exactly 40% of the maximum suffice
can_reproduce_inclusive(a) ==
    /\ a.state # "dead"
    /\ a.age > MIN_REPRODUCTION_AGE * AScale
    /\ a.age < (MIN_REPRODUCTION_AGE + 10) * AScale
    /\ a.energy * 10 >= MaxEnergy(a) * 4
    /\ a.hp * 10 >= MaxHp(a) * 4
    /\ a.time_since_last_reproduction > Config(a).reproduction_cooldown * AScale

\* Agent.can_reproduce
can_reproduce(a) ==
    /\ a.state # "dead"
    /\ a.age > MIN_REPRODUCTION_AGE * AScale
    /\ a.age < (MIN_REPRODUCTION_AGE + 10) * AScale
    /\ a.energy * 10 > MaxEnergy(a) * 4
    /\ a.hp * 10 > MaxHp(a) * 4
    /\ a.time_since_last_reproduction > Config(a).reproduction_cooldown * AScale

\* a faulty variant: the searching agent is not excluded from its own
\* potential mates
potential_mates_with_self(ags, i, others) ==
    SelectSeq(others, LAMBDA j :
        /\ ags[j].species = ags[i].species
        /\ ags[j].state # "dead"
        /\ can_reproduce(ags[j])
        /\ DistLT(ags[i].position, ags[j].position, MATING_RANGE * PScale))

\* Agent.find_mate: the potential mates of ags[i] among the indices `others`
\* of the agent list, in list order
potential_mates(ags, i, others) ==
    SelectSeq(others, LAMBDA j :
        /\ ags[j].species = ags[i].species
        /\ ags[j].id # ags[i].id
        /\ ags[j].state # "dead"
        /\ can_reproduce(ags[j])
        /\ DistLT(ags[i].position, ags[j].position, MATING_RANGE * PScale))

\* random.choice(seq) with variate u
random_choice(seq, u) == seq[((u * Len(seq)) \div 100) + 1]

\* Agent.find_mate: index of the mate, 0 for None
find_mate(ags, i, others, u) ==
    LET pm == potential_mates(ags, i, others)
    IN IF pm = <<>> THEN 0 ELSE random_choice(pm, u)

\* Agent.move_towards, speed multiplier in percent
move_towards(a, target, mult) ==
    LET direction == sub(target, a.position)
        normalized == normalize(direction)
        speed == (Config(a).base_speed * mult) \div 100
    IN [a EXCEPT !.velocity = scale(normalized, speed)]

\* Agent.wander, speed multiplier in percent
wander(a, mult, r) ==
    LET a1 == IF a.wander_target = None \/ r.wander < 5
              THEN [a EXCEPT !.wander_target =
                        <<(MAP_WIDTH * PScale * r.wx) \div 100,
                          (SCREEN_HEIGHT * PScale * r.wy) \div 100>>]
              ELSE a
    IN move_towards(a1, a1.wander_target, (mult * 50) \div 100)

-----------------------------------------------------------------------------
(* environment.py *)

Resource(rid, resource_type, position, amount) ==
    [rid |-> rid, resource_type |-> resource_type, position |-> position,
     amount |-> amount]

\* Environment.get_resources_in_range, radius in position units
get_resources_in_range(res, position, radius) ==
    SelectSeq(res, LAMBDA x : DistLE(position, x.position, radius))

\* a faulty variant: resources are compared by type and amount, not by
\* identity, so that an equal resource is removed in place of an absent one
remove_resource_by_value(res, resource) ==
    LET same(k) == /\ res[k].resource_type = resource.resource_type
                   /\ res[k].amount = resource.amount
    IN IF \E k \in 1..Len(res) : same(k)
       THEN LET k == CHOOSE k \in 1..Len(res) :
                         same(k) /\ \A j \in 1..(k - 1) : ~same(j)
            IN SubSeq(res, 1, k - 1) \o SubSeq(res, k + 1, Len(res))
       ELSE res

\* Environment.remove_resource: list.remove of that very object, if present
remove_resource(res, resource) ==
    IF \E k \in 1..Len(res) : res[k].rid = resource.rid
    THEN LET k == CHOOSE k \in 1..Len(res) :
                      /\ res[k].rid = resource.rid
                      /\ \A j \in 1..(k - 1) : res[j].rid # resource.rid
         IN SubSeq(res, 1, k - 1) \o SubSeq(res, k + 1, Len(res))
    ELSE res

\* Environment._create_obstacles: five pygame.Rect(x, y, w, h), in pixels
obstacles ==
    <<[x |-> 100, y |-> 100, w |-> 40, h |-> 40],
      [x |-> 600, y |-> 150, w |-> 60, h |-> 30],
      [x |-> 350, y |-> 380, w |-> 50, h |-> 40],
      [x |-> 150, y |-> 600, w |-> 30, h |-> 60],
      [x |-> 650, y |-> 650, w |-> 44, h |-> 52]>>

\* pygame.Rect.center, in position units
center(o) == <<(o.x + o.w \div 2) * PScale, (o.y + o.h \div 2) * PScale>>

\* pygame.Rect.collidepoint for a point in position units
collidepoint(o, pos) ==
    /\ o.x * PScale <= pos[1] /\ pos[1] < (o.x + o.w) * PScale
    /\ o.y * PScale <= pos[2] /\ pos[2] < (o.y + o.h) * PScale

-----------------------------------------------------------------------------
(* entities.py: strategies.  A world W is [agents, resources, log]; a        *)
(* strategy of agent i maps a world and the variates r of the call to the  *)
(* world it leaves.                                                        *)

NoLog == [cause |-> "", strategy |-> "", hit |-> 0, ate |-> 0]

\* the resources within `radius` whose type is in the agent's diet
edible_in_range(W, a, radius) ==
    SelectSeq(get_resources_in_range(W.resources, a.position, radius),
              LAMBDA x : x.resource_type \in Config(a).diet)

\* min(edible, key=distance to the agent)
nearest_resource(a, edible) ==
    edible[ArgMin([k \in 1..Len(edible) |->
                      distance2(a.position, edible[k].position)])]

WideViewStrategy(W, i, r) ==
    LET agent == W.agents[i]
        view_range == (Config(agent).view_range * PScale * 15) \div 10
        edible == edible_in_range(W, agent, view_range)
    IN IF edible # <<>>
       THEN [W EXCEPT !.agents[i] =
                move_towards(agent, nearest_resource(agent, edible).position, 70)]
       ELSE [W EXCEPT !.agents[i] = wander(agent, 70, r)]

FastMoveStrategy(W, i, r) ==
    LET agent == W.agents[i]
        view_range == (Config(agent).view_range * PScale * 6) \div 10
        edible == edible_in_range(W, agent, view_range)
    IN IF edible # <<>>
       THEN [W EXCEPT !.agents[i] =
                move_towards(agent, nearest_resource(agent, edible).position, 150)]
       ELSE [W EXCEPT !.agents[i] = wander(agent, 150, r)]

RandomWalkStrategy(W, i, r) ==
    LET agent == W.agents[i]
        edible == edible_in_range(W, agent, Config(agent).view_range * PScale)
    IN IF r.walk < 30 /\ edible # <<>>
       THEN [W EXCEPT !.agents[i] =
                move_towards(agent, random_choice(edible, r.choice).position, 100)]
       ELSE [W EXCEPT !.agents[i] = wander(agent, 100, r)]

\* a faulty variant: an agent lying in wait regains energy
AmbushStrategy_resting(W, i, r) ==
    LET agent == W.agents[i]
        view_range == (Config(agent).view_range * PScale * 4) \div 10
        edible == edible_in_range(W, agent, view_range)
    IN IF edible # <<>>
       THEN [W EXCEPT !.agents[i] =
                move_towards(agent, nearest_resource(agent, edible).position, 50)]
       ELSE [W EXCEPT !.agents[i].energy = @ + EScale]

AmbushStrategy(W, i, r) ==
    LET agent == W.agents[i]
        view_range == (Config(agent).view_range * PScale * 4) \div 10
        edible == edible_in_range(W, agent, view_range)
    IN IF edible # <<>>
       THEN [W EXCEPT !.agents[i] =
                move_towards(agent, nearest_resource(agent, edible).position, 50)]
       ELSE W

\* a faulty variant: the `state != 'dead'` filter is forgotten
enemies_within_any(W, i, radius) ==
    SelectSeq([k \in 1..Len(W.agents) |-> k], LAMBDA k :
        /\ W.agents[k].species # W.agents[i].species
        /\ DistLT(W.agents[i].position, W.agents[k].position, radius))

\* a faulty variant: the other agents of the same species are enemies too
enemies_within_all_species(W, i, radius) ==
    SelectSeq([k \in 1..Len(W.agents) |-> k], LAMBDA k :
        /\ W.agents[k].state # "dead"
        /\ k # i
        /\ DistLT(W.agents[i].position, W.agents[k].position, radius))

\* the indices, in list order, of the live agents of another species within
\* `radius` (position units) of agent i
enemies_within(W, i, radius) ==
    SelectSeq([k \in 1..Len(W.agents) |-> k], LAMBDA k :
        /\ W.agents[k].state # "dead"
        /\ W.agents[k].species # W.agents[i].species
        /\ DistLT(W.agents[i].position, W.agents[k].position, radius))

\* the indices, in list order, of the live agents of the same species within
\* `radius` of agent i; other_agents is the whole list, agent i included
allies_within(W, i, radius) ==
    SelectSeq([k \in 1..Len(W.agents) |-> k], LAMBDA k :
        /\ W.agents[k].state # "dead"
        /\ W.agents[k].species = W.agents[i].species
        /\ DistLT(W.agents[i].position, W.agents[k].position, radius))

\* min(enemies, key=distance to agent i)
nearest_agent(W, i, ks) ==
    ks[ArgMin([k \in 1..Len(ks) |->
                  distance2(W.agents[i].position, W.agents[ks[k]].position)])]

\* a faulty variant: the nearest enemy is targeted, not the weakest
AggressiveStrategy_nearest(W, i, r) ==
    LET agent == W.agents[i]
        enemies == enemies_within(W, i, 100 * PScale)
    IN IF enemies = <<>> THEN W
       ELSE LET t == nearest_agent(W, i, enemies)
                target == W.agents[t]
            IN IF ~DistLE(agent.position, target.position, 20 * PScale)
               THEN [W EXCEPT !.agents[i] =
                        move_towards(agent, target.position, 150)]
               ELSE LET damage == (Config(agent).attack_power * 15 * HScale) \div 10
                        counter_damage ==
                            (Config(target).attack_power * 5 * HScale) \div 10
                    IN [W EXCEPT
                          !.agents[t] = [target EXCEPT
                              !.hp = @ - damage,
                              !.state = "fleeing",
                              !.threat_position = agent.position,
                              !.last_attacker = i],
                          !.agents[i] = [agent EXCEPT
                              !.stats.attacks = @ + 1,
                              !.hp = @ - counter_damage,
                              !.energy = @ - 2 * EScale],
                          !.log.hit = t]

AggressiveStrategy(W, i, r) ==
    LET agent == W.agents[i]
        enemies == enemies_within(W, i, 100 * PScale)
    IN IF enemies = <<>> THEN W
       ELSE LET t == enemies[ArgMin([k \in 1..Len(enemies) |-> W.agents[enemies[k]].hp])]
                target == W.agents[t]
            IN IF ~DistLE(agent.position, target.position, 20 * PScale)
               THEN [W EXCEPT !.agents[i] =
                        move_towards(agent, target.position, 150)]
               ELSE LET damage == (Config(agent).attack_power * 15 * HScale) \div 10
                        counter_damage ==
                            (Config(target).attack_power * 5 * HScale) \div 10
                    IN [W EXCEPT
                          !.agents[t] = [target EXCEPT
                              !.hp = @ - damage,
                              !.state = "fleeing",
                              !.threat_position = agent.position,
                              !.last_attacker = i],
                          !.agents[i] = [agent EXCEPT
                              !.stats.attacks = @ + 1,
                              !.hp = @ - counter_damage,
                              !.energy = @ - 2 * EScale],
                          !.log.hit = t]

\* a faulty variant: the last attacker is not checked for being dead
DefensiveStrategy_unchecked(W, i, r) ==
    LET agent == W.agents[i]
    IN IF agent.last_attacker = 0 THEN W
       ELSE LET t == agent.last_attacker
                target == W.agents[t]
            IN IF ~DistLE(agent.position, target.position, 20 * PScale)
               THEN [W EXCEPT !.agents[i] =
                        move_towards(agent, target.position, 100)]
               ELSE LET defense_bonus == Config(agent).defense * HScale
                        damage ==
                            (Config(agent).attack_power * 8 * HScale) \div 10
                                + defense_bonus
                        counter_damage ==
                            (Config(target).attack_power * 2 * HScale) \div 10
                    IN [W EXCEPT
                          !.agents[t].hp = @ - damage,
                          !.agents[i] = [agent EXCEPT
                              !.stats.attacks = @ + 1,
                              !.hp = @ - counter_damage,
                              !.energy = @ - EScale,
                              !.last_attacker = 0],
                          !.log.hit = t]

DefensiveStrategy(W, i, r) ==
    LET agent == W.agents[i]
    IN IF agent.last_attacker = 0 THEN W
       ELSE LET t == agent.last_attacker
                target == W.agents[t]
            IN IF target.state = "dead"
               THEN [W EXCEPT !.agents[i].last_attacker = 0]
               ELSE IF ~DistLE(agent.position, target.position, 20 * PScale)
               THEN [W EXCEPT !.agents[i] =
                        move_towards(agent, target.position, 100)]
               ELSE LET defense_bonus == Config(agent).defense * HScale
                        damage ==
                            (Config(agent).attack_power * 8 * HScale) \div 10
                                + defense_bonus
                        counter_damage ==
                            (Config(target).attack_power * 2 * HScale) \div 10
                    IN [W EXCEPT
                          !.agents[t].hp = @ - damage,
                          !.agents[i] = [agent EXCEPT
                              !.stats.attacks = @ + 1,
                              !.hp = @ - counter_damage,
                              !.energy = @ - EScale,
                              !.last_attacker = 0],
                          !.log.hit = t]

\* `for ally in allies[:2]: ally.energy -= 0.5`
RECURSIVE charge_allies(_, _)
charge_allies(ags, ks) ==
    IF ks = <<>> THEN ags
    ELSE charge_allies([ags EXCEPT ![Head(ks)].energy = @ - EScale \div 2],
                       Tail(ks))

GroupStrategy(W, i, r) ==
    LET agent == W.agents[i]
        allies == allies_within(W, i, 150 * PScale)
        enemies == enemies_within(W, i, 100 * PScale)
    IN IF enemies = <<>> \/ Len(allies) < 2 THEN W
       ELSE LET t == nearest_agent(W, i, enemies)
                target == W.agents[t]
            IN IF ~DistLE(agent.position, target.position, 20 * PScale)
               THEN [W EXCEPT !.agents[i] =
                        move_towards(agent, target.position, 120)]
               ELSE LET group_bonus == Min2(Len(allies), 5) * 3
                        damage ==
                            (Config(agent).attack_power * (10 + group_bonus)
                                * HScale) \div 10
                        counter_damage ==
                            (Config(target).attack_power * 3 * HScale) \div 10
                        W1 == [W EXCEPT
                                 !.agents[t] = [target EXCEPT
                                     !.hp = @ - damage,
                                     !.state = "fleeing",
                                     !.threat_position = agent.position,
                                     !.last_attacker = i],
                                 !.agents[i] = [agent EXCEPT
                                     !.stats.attacks = @ + 1,
                                     !.hp = @ - counter_damage,
                                     !.energy = @ - (15 * EScale) \div 10],
                                 !.log.hit = t]
                    IN [W1 EXCEPT !.agents =
                          charge_allies(W1.agents,
                                        SubSeq(allies, 1, Min2(2, Len(allies))))]

\* `if not hasattr(agent, '_escape_counted'): escapes += 1; flag = True`
count_escape(a) ==
    IF a.escape_counted THEN a
    ELSE [a EXCEPT !.stats.escapes = @ + 1, !.escape_counted = TRUE]

SpeedStrategy(W, i, r) ==
    LET agent == W.agents[i]
    IN IF agent.threat_position = None THEN W
       ELSE LET direction == sub(agent.position, agent.threat_position)
                normalized == normalize(direction)
                a1 == [agent EXCEPT
                         !.velocity = scale(normalized, Config(agent).base_speed * 2),
                         !.energy = @ - (3 * EScale) \div 10]
            IN [W EXCEPT !.agents[i] = count_escape(a1)]

HideStrategy(W, i, r) ==
    LET agent == W.agents[i]
    IN IF obstacles = <<>> \/ agent.threat_position = None THEN W
       ELSE LET nearest ==
                    obstacles[ArgMin([k \in 1..Len(obstacles) |->
                                  distance2(agent.position, center(obstacles[k]))])]
                threat_to_obstacle == sub(center(nearest), agent.threat_position)
                normalized == normalize(threat_to_obstacle)
                hide_pos == add(center(nearest), scale(normalized, 30 * PScale))
                a1 == move_towards(agent, hide_pos, 150)
                a2 == IF DistLT(a1.position, hide_pos, 15 * PScale)
                      THEN [a1 EXCEPT !.velocity = <<0, 0>>,
                                      !.energy = @ - (5 * EScale) \div 100]
                      ELSE [a1 EXCEPT !.energy = @ - (15 * EScale) \div 100]
            IN [W EXCEPT !.agents[i] = count_escape(a2)]

\* (math.cos(angle), math.sin(angle)) for angle = 2 pi u / 100, at the
\* quarter turns
unit_direction(u) ==
    CASE u = 0 -> <<NScale, 0>>
      [] u = 25 -> <<0, NScale>>
      [] u = 50 -> <<-NScale, 0>>
      [] u = 75 -> <<0, -NScale>>

ScatterStrategy(W, i, r) ==
    LET agent == W.agents[i]
    IN IF r.scatter >= 30 THEN W
       ELSE LET direction == unit_direction(r.angle)
                escape_dir == normalize(sub(agent.position, agent.threat_position))
                mixed == IF agent.threat_position # None
                         THEN <<TDiv(direction[1] + escape_dir[1], 2),
                                TDiv(direction[2] + escape_dir[2], 2)>>
                         ELSE direction
                normalized == normalize(mixed)
                a1 == [agent EXCEPT
                         !.velocity =
                             scale(normalized, (Config(agent).base_speed * 15) \div 10),
                         !.energy = @ - (2 * EScale) \div 10]
            IN [W EXCEPT !.agents[i] = count_escape(a1)]

\* STRATEGY_MAP[name]
STRATEGY_MAP(name, W, i, r) ==
    CASE name = "WideView" -> WideViewStrategy(W, i, r)
      [] name = "FastMove" -> FastMoveStrategy(W, i, r)
      [] name = "RandomWalk" -> RandomWalkStrategy(W, i, r)
      [] name = "Ambush" -> AmbushStrategy(W, i, r)
      [] name = "Aggressive" -> AggressiveStrategy(W, i, r)
      [] name = "Defensive" -> DefensiveStrategy(W, i, r)
      [] name = "Group" -> GroupStrategy(W, i, r)
      [] name = "Speed" -> SpeedStrategy(W, i, r)
      [] name = "Hide" -> HideStrategy(W, i, r)
      [] name = "Scatter" -> ScatterStrategy(W, i, r)

\* STRATEGY_MAP[name].execute(agent, environment, other_agents); the log
\* notes which strategy ran
execute_strategy(name, W, i, r) ==
    Only({STRATEGY_MAP(name, W1, i, r) : W1 \in {[W EXCEPT !.log.strategy = name]}})

-----------------------------------------------------------------------------
(* entities.py: Agent.update and what it dispatches to *)

\* a faulty variant: the agent fights when its fitness is above 0.8 times
\* that of the nearest enemy
should_fight_weaker(W, i) ==
    LET self == W.agents[i]
        nearby == enemies_within(W, i, Config(self).view_range * PScale)
    IN IF self.energy * 10 < MaxEnergy(self) * 4 THEN FALSE
       ELSE IF nearby = <<>> THEN FALSE
       ELSE LET nearest_enemy == W.agents[nearest_agent(W, i, nearby)]
                my_fitness == calculate_fitness(self)
                enemy_fitness == calculate_fitness(nearest_enemy)
            IN FracLT(4 * enemy_fitness.n, 5 * enemy_fitness.d,
                      my_fitness.n, my_fitness.d)

\* a faulty variant: any enemy in view that is weak enough makes the agent
\* fight, not only the nearest one
should_fight_any(W, i) ==
    LET self == W.agents[i]
        nearby == enemies_within(W, i, Config(self).view_range * PScale)
        my_fitness == calculate_fitness(self)
    IN IF self.energy * 10 < MaxEnergy(self) * 4 THEN FALSE
       ELSE \E k \in 1..Len(nearby) :
               LET enemy_fitness == calculate_fitness(W.agents[nearby[k]])
               IN FracLT(6 * enemy_fitness.n, 5 * enemy_fitness.d,
                         my_fitness.n, my_fitness.d)

\* Agent.should_fight
should_fight(W, i) ==
    LET self == W.agents[i]
        nearby == enemies_within(W, i, Config(self).view_range * PScale)
    IN IF self.energy * 10 < MaxEnergy(self) * 4 THEN FALSE
       ELSE IF nearby = <<>> THEN FALSE
       ELSE LET nearest_enemy == W.agents[nearest_agent(W, i, nearby)]
                my_fitness == calculate_fitness(self)
                enemy_fitness == calculate_fitness(nearest_enemy)
            IN \* my_fitness > enemy_fitness * 1.2
               FracLT(6 * enemy_fitness.n, 5 * enemy_fitness.d,
                      my_fitness.n, my_fitness.d)

\* a faulty variant: the combat strategy is re-picked among the flee
\* strategies
execute_combat_flee_pick(W, i, r) ==
    LET self == W.agents[i]
        name == IF r.repick < 5 THEN pick_strategy(self, "flee", r.pick)
                ELSE self.current_combat_strategy
        W1 == [W EXCEPT !.agents[i].current_combat_strategy = name]
    IN execute_strategy(name, W1, i, r)

\* Agent.execute_combat
execute_combat(W, i, r) ==
    LET self == W.agents[i]
        name == IF r.repick < 5 THEN pick_strategy(self, "combat", r.pick)
                ELSE self.current_combat_strategy
        W1 == [W EXCEPT !.agents[i].current_combat_strategy = name]
    IN execute_strategy(name, W1, i, r)

\* Agent.execute_fleeing, lines 836-840: the threat is forgotten once the
\* agent is farther from it than twice its view range
forget_distant_threat(W, i) ==
    LET self == W.agents[i]
        safe_distance == Config(self).view_range * PScale * 2
    IN IF self.threat_position # None
          /\ ~DistLE(self.position, self.threat_position, safe_distance)
       THEN [W EXCEPT !.agents[i].threat_position = None]
       ELSE W

\* Agent.execute_fleeing
execute_fleeing(W, i, r) ==
    LET self == W.agents[i]
        base_range == (Config(self).view_range * PScale * 15) \div 10
        threat_detection_range ==
            IF self.current_foraging_strategy = "Ambush"
            THEN (base_range * 13) \div 10 ELSE base_range
        enemies == enemies_within(W, i, threat_detection_range)
        threat == IF self.threat_position = None /\ enemies # <<>>
                  THEN W.agents[nearest_agent(W, i, enemies)].position
                  ELSE self.threat_position
        name == IF r.repick < 5 THEN pick_strategy(self, "flee", r.pick)
                ELSE self.current_flee_strategy
    IN Only({forget_distant_threat(W2, i) :
               W2 \in {execute_strategy(name,
                          [W EXCEPT !.agents[i].threat_position = threat,
                                    !.agents[i].current_flee_strategy = name],
                          i, r)}})

\* a faulty variant: the eaten resource is left in the environment
eat_leaving(W, i) ==
    LET self == W.agents[i]
        edible == edible_in_range(W, self, 15 * PScale)
    IN IF edible = <<>> THEN W
       ELSE LET resource == nearest_resource(self, edible)
            IN [W EXCEPT
                  !.agents[i].energy =
                      Min2(MaxEnergy(self), @ + resource.amount * EScale),
                  !.agents[i].hp =
                      Min2(MaxHp(self), @ + (resource.amount * HScale) \div 2),
                  !.agents[i].stats.meals = @ + 1,
                  !.log.ate = resource.rid]

\* a faulty variant: the first edible resource in range is eaten, not the
\* nearest
eat_first(W, i) ==
    LET self == W.agents[i]
        edible == edible_in_range(W, self, 15 * PScale)
    IN IF edible = <<>> THEN W
       ELSE LET resource == Head(edible)
            IN [W EXCEPT
                  !.agents[i].energy =
                      Min2(MaxEnergy(self), @ + resource.amount * EScale),
                  !.agents[i].hp =
                      Min2(MaxHp(self), @ + (resource.amount * HScale) \div 2),
                  !.resources = remove_resource(@, resource),
                  !.agents[i].stats.meals = @ + 1,
                  !.log.ate = resource.rid]

\* a faulty variant: energy and hp are not capped at their maxima
eat_uncapped(W, i) ==
    LET self == W.agents[i]
        edible == edible_in_range(W, self, 15 * PScale)
    IN IF edible = <<>> THEN W
       ELSE LET resource == nearest_resource(self, edible)
            IN [W EXCEPT
                  !.agents[i].energy = @ + resource.amount * EScale,
                  !.agents[i].hp = @ + (resource.amount * HScale) \div 2,
                  !.resources = remove_resource(@, resource),
                  !.agents[i].stats.meals = @ + 1,
                  !.log.ate = resource.rid]

\* Agent.eat
eat(W, i) ==
    LET self == W.agents[i]
        edible == edible_in_range(W, self, 15 * PScale)
    IN IF edible = <<>> THEN W
       ELSE LET resource == nearest_resource(self, edible)
            IN [W EXCEPT
                  !.agents[i].energy =
                      Min2(MaxEnergy(self), @ + resource.amount * EScale),
                  !.agents[i].hp =
                      Min2(MaxHp(self), @ + (resource.amount * HScale) \div 2),
                  !.resources = remove_resource(@, resource),
                  !.agents[i].stats.meals = @ + 1,
                  !.log.ate = resource.rid]

\* Agent.execute_foraging
execute_foraging(W, i, r) ==
    LET self == W.agents[i]
        name == IF r.repick < 10 THEN pick_strategy(self, "foraging", r.pick)
                ELSE self.current_foraging_strategy
        W1 == [W EXCEPT !.agents[i].current_foraging_strategy = name]
    IN Only({eat(W2, i) : W2 \in {execute_strategy(name, W1, i, r)}})

\* Agent.update, lines 688-698: age, metabolism and starvation damage
metabolize(a) ==
    LET a1 == [a EXCEPT
                 !.age = @ + AGE_INCREMENT,
                 !.energy = @ - METABOLISM_RATE,
                 !.time_since_last_reproduction = @ + AGE_INCREMENT]
    IN IF a1.energy * 10 < MaxEnergy(a1) * 2
       THEN [a1 EXCEPT !.hp = @ - (2 * HScale) \div 10]
       ELSE a1

\* a faulty variant: hp is not part of the death check
must_die_hp_unchecked(a) ==
    a.energy <= 0 \/ a.age >= Config(a).max_age * AScale

\* a faulty variant: vitals of exactly zero do not kill
must_die_below_zero(a) ==
    a.hp < 0 \/ a.energy < 0 \/ a.age >= Config(a).max_age * AScale

\* the death condition of Agent.update
must_die(a) ==
    a.hp <= 0 \/ a.energy <= 0 \/ a.age >= Config(a).max_age * AScale

\* the cause of death printed by Agent.update
death_cause(a) ==
    IF a.hp <= 0 THEN "HP depleted"
    ELSE IF a.energy <= 0 THEN "Energy depleted"
    ELSE "Old age"

\* a faulty variant: the position is not clamped to the field
apply_movement_unclamped(a) ==
    [a EXCEPT
       !.position = <<a.position[1] + a.velocity[1],
                      a.position[2] + a.velocity[2]>>,
       !.velocity = <<TDiv(a.velocity[1] * 9, 10), TDiv(a.velocity[2] * 9, 10)>>]

\* Agent.update, lines 743-753: integrate, clamp, decay
apply_movement(a) ==
    [a EXCEPT
       !.position = <<clamp(a.position[1] + a.velocity[1], 0, MAP_WIDTH * PScale),
                      clamp(a.position[2] + a.velocity[2], 0, SCREEN_HEIGHT * PScale)>>,
       !.velocity = <<TDiv(a.velocity[1] * 9, 10), TDiv(a.velocity[2] * 9, 10)>>]

\* a faulty variant: fight-readiness is tested before low hp
next_state_fight_first(W, i) ==
    LET self == W.agents[i]
    IN IF should_fight(W, i) THEN "fighting"
       ELSE IF self.hp * 10 < MaxHp(self) * 3 THEN "fleeing"
       ELSE IF FracLT(self.energy, MaxEnergy(self),
                      self.hunger_threshold.n, self.hunger_threshold.d)
            THEN "foraging"
       ELSE "idle"

\* Agent.update, lines 719-741: the state chosen by priority
next_state(W, i) ==
    LET self == W.agents[i]
    IN IF self.hp * 10 < MaxHp(self) * 3 THEN "fleeing"
       ELSE IF should_fight(W, i) THEN "fighting"
       ELSE IF FracLT(self.energy, MaxEnergy(self),
                      self.hunger_threshold.n, self.hunger_threshold.d)
            THEN "foraging"
       ELSE "idle"

\* Agent.update, lines 733-753: the behaviour of the chosen state, then the
\* movement
dispatch(W, i, r) ==
    LET st == W.agents[i].state
        W2 == CASE st = "fleeing" -> execute_fleeing(W, i, r)
                [] st = "fighting" -> execute_combat(W, i, r)
                [] st = "foraging" -> execute_foraging(W, i, r)
                [] st = "idle" ->
                    [W EXCEPT !.agents[i] =
                        [wander(@, 30, r) EXCEPT !.escape_counted = FALSE]]
    IN [W2 EXCEPT !.agents[i] = apply_movement(@)]

\* a faulty variant: the dying agent still chooses a state, acts and moves
\* before it is marked dead
after_metabolism_acting(W, i, r) ==
    LET self == W.agents[i]
    IN IF must_die(self)
       THEN Only({[V EXCEPT !.agents[i].state = "dead",
                            !.log.cause = death_cause(self)] :
                    V \in {dispatch([W EXCEPT !.agents[i].state = next_state(W, i)],
                                    i, r)}})
       ELSE Only({dispatch(W1, i, r) :
                    W1 \in {[W EXCEPT !.agents[i].state = next_state(W, i)]}})

\* Agent.update, lines 700-753: the death check and, for a survivor, the
\* state machine
after_metabolism(W, i, r) ==
    LET self == W.agents[i]
    IN IF must_die(self)
       THEN [W EXCEPT !.agents[i].state = "dead",
                      !.log.cause = death_cause(self)]
       ELSE Only({dispatch(W1, i, r) :
                    W1 \in {[W EXCEPT !.agents[i].state = next_state(W, i)]}})

\* Agent.update
update(W, i, r) ==
    Only({after_metabolism(W0, i, r) :
            W0 \in {[W EXCEPT !.agents[i] = metabolize(@)]}})

-----------------------------------------------------------------------------
(* entities.py: Agent.reproduce *)

\* a faulty variant: the total is taken before the weights are floored at 0
inherit_dist_late_floor(p, q, mu) ==
    LET sums == [k \in 1..Len(p.w) |->
                   (p.w[k] * q.d + q.w[k] * p.d) * 50 * MUTATION_RATE_DEN
                       + (mu[k] - 50) * 2 * p.d * q.d]
        raw == [k \in 1..Len(sums) |-> Max2(0, sums[k])]
        g == GCD(GCDSeq(raw), SumSeq(sums))
    IN [w |-> [k \in 1..Len(raw) |-> raw[k] \div g], d |-> SumSeq(sums) \div g]

\* a faulty variant: the mutation is uniform(-0.5, 0.5)
mutated_wide(p, q, mu) ==
    [k \in 1..Len(p.w) |->
        Max2(0, (p.w[k] * q.d + q.w[k] * p.d) * 50 * MUTATION_RATE_DEN
                  + (mu[k] - 50) * 10 * p.d * q.d)]

\* the offspring's weights before normalisation, in units of
\* 1 / (100 * MUTATION_RATE_DEN * p.d * q.d): max(0, average + mutation) per
\* strategy, mutation = uniform(-MUTATION_RATE, MUTATION_RATE) with variate
\* mu[k] in 0..99
mutated(p, q, mu) ==
    [k \in 1..Len(p.w) |->
        Max2(0, (p.w[k] * q.d + q.w[k] * p.d) * 50 * MUTATION_RATE_DEN
                  + (mu[k] - 50) * 2 * p.d * q.d)]

\* one context of the offspring: the mutated weights, normalised when their
\* total is positive
inherit_dist(p, q, mu) ==
    LET den == 100 * MUTATION_RATE_DEN * p.d * q.d
        raw == mutated(p, q, mu)
        total == SumSeq(raw)
        g == GCDSeq(raw)
    IN IF total > 0
       THEN [w |-> [k \in 1..Len(raw) |-> raw[k] \div g], d |-> total \div g]
       ELSE [w |-> raw, d |-> den]

\* utils.clamp on fractions
clamp_frac(x, lo, hi) ==
    IF FracLT(x.n, x.d, lo.n, lo.d) THEN lo
    ELSE IF FracLT(hi.n, hi.d, x.n, x.d) THEN hi
    ELSE x

\* a faulty variant: the mutated average is not clamped to [0.2, 0.8]
inherit_hunger_unclamped(h1, h2, u) ==
    LET lcm(a, b) == (a \div GCD(a, b)) * b
        den == lcm(lcm(2 * h1.d, 2 * h2.d), 500)
    IN Frac(h1.n * (den \div (2 * h1.d)) + h2.n * (den \div (2 * h2.d))
                + (u - 50) * (den \div 500),
            den)

\* the offspring's hunger threshold: clamp(average + uniform(-0.1, 0.1), 0.2, 0.8)
inherit_hunger(h1, h2, u) ==
    LET lcm(a, b) == (a \div GCD(a, b)) * b
        \* a common denominator of h1 / 2, h2 / 2 and the mutation (u - 50) / 500
        den == lcm(lcm(2 * h1.d, 2 * h2.d), 500)
    IN clamp_frac(Frac(h1.n * (den \div (2 * h1.d)) + h2.n * (den \div (2 * h2.d))
                           + (u - 50) * (den \div 500),
                       den),
                  [n |-> 1, d |-> 5], [n |-> 4, d |-> 5])

\* a faulty variant: the position is not clamped to the field
child_position_unclamped(self, mate, r) ==
    <<TDiv(self.position[1] + mate.position[1], 2)
          + (60 * PScale * r.jx) \div 100 - 30 * PScale,
      TDiv(self.position[2] + mate.position[2], 2)
          + (60 * PScale * r.jy) \div 100 - 30 * PScale>>

\* the offspring's position: midpoint plus uniform(-30, 30), clamped
child_position(self, mate, r) ==
    <<clamp(TDiv(self.position[1] + mate.position[1], 2)
                + (60 * PScale * r.jx) \div 100 - 30 * PScale,
            20 * PScale, (MAP_WIDTH - 20) * PScale),
      clamp(TDiv(self.position[2] + mate.position[2], 2)
                + (60 * PScale * r.jy) \div 100 - 30 * PScale,
            20 * PScale, (SCREEN_HEIGHT - 20) * PScale)>>

\* a faulty variant: the child takes the id of its first parent
offspring_with_parent_id(self, mate, id, r) ==
    Agent(self.id, self.species, child_position(self, mate, r),
          inherit_hunger(self.hunger_threshold, mate.hunger_threshold, r.hmut),
          [context \in DOMAIN self.strategy_probs |->
              inherit_dist(self.strategy_probs[context],
                           mate.strategy_probs[context], r.mut[context])],
          r)

\* a faulty variant: the offspring starts with the mean of its parents' hp
offspring_inheriting_hp(self, mate, id, r) ==
    [Agent(id, self.species, child_position(self, mate, r),
           inherit_hunger(self.hunger_threshold, mate.hunger_threshold, r.hmut),
           [context \in DOMAIN self.strategy_probs |->
               inherit_dist(self.strategy_probs[context],
                            mate.strategy_probs[context], r.mut[context])],
           r)
       EXCEPT !.hp = (self.hp + mate.hp) \div 2]

\* the offspring returned by Agent.reproduce
offspring(self, mate, id, r) ==
    Agent(id, self.species, child_position(self, mate, r),
          inherit_hunger(self.hunger_threshold, mate.hunger_threshold, r.hmut),
          [context \in DOMAIN self.strategy_probs |->
              inherit_dist(self.strategy_probs[context],
                           mate.strategy_probs[context], r.mut[context])],
          r)

\* a faulty variant: the reproduction timer is not reset
pay_reproduction_keeping_timer(a) ==
    [a EXCEPT
       !.energy = @ - (MaxEnergy(a) * REPRODUCTION_ENERGY_COST) \div 100,
       !.hp = @ - (MaxHp(a) * REPRODUCTION_HP_COST) \div 100,
       !.total_offspring = @ + 1,
       !.stats.offspring = @ + 1]

\* a faulty variant: the costs are fractions of the current energy and hp
pay_reproduction_of_current(a) ==
    [a EXCEPT
       !.energy = @ - (@ * REPRODUCTION_ENERGY_COST) \div 100,
       !.hp = @ - (@ * REPRODUCTION_HP_COST) \div 100,
       !.time_since_last_reproduction = 0,
       !.total_offspring = @ + 1,
       !.stats.offspring = @ + 1]

\* a parent after Agent.reproduce
pay_reproduction(a) ==
    [a EXCEPT
       !.energy = @ - (MaxEnergy(a) * REPRODUCTION_ENERGY_COST) \div 100,
       !.hp = @ - (MaxHp(a) * REPRODUCTION_HP_COST) \div 100,
       !.time_since_last_reproduction = 0,
       !.total_offspring = @ + 1,
       !.stats.offspring = @ + 1]

\* Agent.reproduce: the agent list after agent i reproduced with agent j
reproduce(ags, i, j) ==
    [ags EXCEPT ![i] = pay_reproduction(ags[i]), ![j] = pay_reproduction(ags[j])]

-----------------------------------------------------------------------------
(* environment.py: spawning *)

\* Environment.spawn_resource: the position found by up to ten tries, else
\* a last random position
spawn_position(w, h, r) ==
    LET pos(t) == random_position(20, 20, w - 20, h - 20, t[1], t[2])
        free == SelectSeq(r.tries, LAMBDA t :
                    \A k \in 1..Len(obstacles) : ~collidepoint(obstacles[k], pos(t)))
    IN IF free # <<>> THEN pos(Head(free)) ELSE pos(r.fallback)

\* a faulty variant: a resource is still spawned when the count is at the
\* maximum
spawn_resource_at_max(res, rid, resource_type, r) ==
    LET current_count ==
            Len(SelectSeq(res, LAMBDA x : x.resource_type = resource_type))
        max_count == IF resource_type = "plant" THEN RESOURCE_MAX_PLANT
                     ELSE RESOURCE_MAX_MEAT
        amount == IF resource_type = "plant" THEN RESOURCE_PLANT_NUTRITION
                  ELSE RESOURCE_MEAT_NUTRITION
    IN IF current_count > max_count THEN res
       ELSE Append(res, Resource(rid, resource_type,
                                 spawn_position(MAP_WIDTH, SCREEN_HEIGHT, r), amount))

\* Environment.spawn_resource
spawn_resource(res, rid, resource_type, r) ==
    LET current_count ==
            Len(SelectSeq(res, LAMBDA x : x.resource_type = resource_type))
        max_count == IF resource_type = "plant" THEN RESOURCE_MAX_PLANT
                     ELSE RESOURCE_MAX_MEAT
        amount == IF resource_type = "plant" THEN RESOURCE_PLANT_NUTRITION
                  ELSE RESOURCE_MEAT_NUTRITION
    IN IF current_count >= max_count THEN res
       ELSE Append(res, Resource(rid, resource_type,
                                 spawn_position(MAP_WIDTH, SCREEN_HEIGHT, r), amount))

-----------------------------------------------------------------------------
(* The random variates one call may draw *)

\* Agent.update: strategy re-pick, RandomWalk, wander and Scatter draws
UpdateDraws ==
    {[repick |-> 50, pick |-> 0, walk |-> 50, choice |-> 0, wander |-> 50,
      wx |-> 25, wy |-> 50, scatter |-> 50, angle |-> 0],
     [repick |-> 2, pick |-> 60, walk |-> 10, choice |-> 99, wander |-> 2,
      wx |-> 75, wy |-> 50, scatter |-> 10, angle |-> 25],
     [repick |-> 7, pick |-> 95, walk |-> 10, choice |-> 0, wander |-> 50,
      wx |-> 50, wy |-> 50, scatter |-> 10, angle |-> 50]}

\* Agent.reproduce: jitter, one mutation variate per strategy, hunger
\* mutation and the offspring's three picks
ReproduceDraws ==
    {[choice |-> 0, jx |-> 50, jy |-> 50, hmut |-> 50,
      mut |-> [foraging |-> <<50, 50, 50, 50>>, combat |-> <<50, 50, 50>>,
               flee |-> <<50, 50, 50>>],
      pickF |-> 0, pickC |-> 0, pickS |-> 0],
     [choice |-> 99, jx |-> 0, jy |-> 99, hmut |-> 0,
      mut |-> [foraging |-> <<0, 0, 0, 0>>, combat |-> <<0, 0, 0>>,
               flee |-> <<0, 0, 0>>],
      pickF |-> 40, pickC |-> 50, pickS |-> 99],
     [choice |-> 50, jx |-> 99, jy |-> 0, hmut |-> 99,
      mut |-> [foraging |-> <<0, 99, 25, 75>>, combat |-> <<99, 0, 50>>,
               flee |-> <<0, 0, 99>>],
      pickF |-> 99, pickC |-> 99, pickS |-> 40]}

\* Environment.update: plant or meat, and the positions tried
SpawnDraws ==
    {[kind |-> 10, tries |-> [k \in 1..10 |-> <<15, 15>>], fallback |-> <<50, 50>>],
     [kind |-> 80, tries |-> [k \in 1..10 |-> <<40, 60>>], fallback |-> <<50, 50>>]}

-----------------------------------------------------------------------------
(* main.py: run_simulation, one iteration of the main loop *)

NoCall == [op |-> "", actor |-> 0, target |-> 0, agents |-> <<>>,
           resources |-> <<>>, new_agents |-> <<>>, log |-> NoLog]

\* main() before it has built a ConfigScreen
NoScreen ==
    [current_config |-> SPECIES_CONFIG, original_config |-> SPECIES_CONFIG,
     species_index |-> 0, checkboxes |-> [plant |-> FALSE, meat |-> FALSE],
     shown |-> FALSE]

\* the record of a call: what was called, by and on which agent (list
\* indices), the agents, resources and newborns it started from, and what
\* it logged
Call(op, actor, target, log) ==
    [op |-> op, actor |-> actor, target |-> target, agents |-> agents,
     resources |-> resources, new_agents |-> new_agents, log |-> log]

\* `if frame_count % 30 == 0`: the frames from one interaction check to the
\* next
INTERACTION_INTERVAL == 30

\* the phase after `for agent in agents`
after_agents == IF frame_count % INTERACTION_INTERVAL = 0 THEN "learn"
                ELSE IF frame_count % 60 = 0 THEN "reproduce"
                ELSE "end"

\* a faulty variant: every learning sweep is followed by a reproduction sweep
after_learn_always == "reproduce"

after_learn == IF frame_count % 60 = 0 THEN "reproduce" ELSE "end"

\* the history of a run that starts with the agents ags: no hit yet, no turn
\* taken; an agent whose state is 'fleeing' is in a flee episode that has
\* added to its escapes counter only if the episode's flag is set
NoHist(ags) ==
    [lethal |-> {},
     last_turn |-> [k \in 1..Len(ags) |-> -1],
     flee_base |-> [k \in 1..Len(ags) |->
                      IF ags[k].state = "fleeing"
                      THEN ags[k].stats.escapes
                               - (IF ags[k].escape_counted THEN 1 ELSE 0)
                      ELSE -1],
     escapes_seen |-> [k \in 1..Len(ags) |-> ags[k].stats.escapes],
     flee_gain |-> [k \in 1..Len(ags) |-> -1],
     stray_gain |-> [k \in 1..Len(ags) |-> 0],
     sweep |-> <<>>]

\* the history after agent i's update in tick t left the world W: i has had
\* its turn, and a hit that left its target with hp <= 0 is noted
note_update(h, i, W, t) ==
    [h EXCEPT
       !.last_turn[i] = t,
       !.lethal = IF W.log.hit # 0 /\ W.agents[W.log.hit].hp <= 0
                  THEN @ \cup {[by |-> i, on |-> W.log.hit, tick |-> t]}
                  ELSE @]

\* the history at the end of a tick that leaves the agents ags (newborns
\* included).  A flee episode is a maximal run of ticks that end with the
\* agent 'fleeing'; flee_base is the escapes counter from before the
\* episode, flee_gain what an episode that ended with this tick added to the
\* counter, stray_gain what a tick outside any episode added to it
note_tick(h, ags) ==
    LET known(k) == k <= Len(h.flee_base)
        base(k) == IF known(k) THEN h.flee_base[k] ELSE -1
        seen(k) == IF known(k) THEN h.escapes_seen[k] ELSE 0
        fleeing(k) == ags[k].state = "fleeing"
    IN [lethal |-> h.lethal,
        last_turn |-> [k \in 1..Len(ags) |->
                         IF known(k) THEN h.last_turn[k] ELSE -1],
        flee_base |-> [k \in 1..Len(ags) |->
                         IF fleeing(k)
                         THEN (IF base(k) # -1 THEN base(k) ELSE seen(k))
                         ELSE -1],
        escapes_seen |-> [k \in 1..Len(ags) |-> ags[k].stats.escapes],
        flee_gain |-> [k \in 1..Len(ags) |->
                         IF base(k) # -1 /\ ~fleeing(k)
                         THEN ags[k].stats.escapes - base(k)
                         ELSE -1],
        stray_gain |-> [k \in 1..Len(ags) |->
                          IF base(k) = -1 /\ ~fleeing(k)
                          THEN ags[k].stats.escapes - seen(k)
                          ELSE 0],
        sweep |-> <<>>]

\* the agents as the learning sweep of this iteration found them, noted at
\* the first pair of its loops
note_sweep(h, ags, i, j) ==
    IF i = 1 /\ j = 1 THEN [h EXCEPT !.sweep = ags] ELSE h

\* environment.update()
EnvironmentUpdate ==
    /\ pc = "env"
    /\ ticks < MaxTicks
    /\ IF spawn_timer + 1 >= RESOURCE_SPAWN_INTERVAL
       THEN \E r \in SpawnDraws :
              /\ spawn_timer' = 0
              /\ resources' = spawn_resource(resources, next_rid,
                                  IF r.kind < 70 THEN "plant" ELSE "meat", r)
              /\ next_rid' = next_rid + 1
       ELSE /\ spawn_timer' = spawn_timer + 1
            /\ UNCHANGED <<resources, next_rid>>
    /\ pc' = "agents"
    /\ idx' = 1
    /\ last' = Call("environment.update", 0, 0, NoLog)
    /\ UNCHANGED <<agents, next_id, frame_count, jdx, mated, new_agents, ticks,
                   removed, hist, species_config, config_screen>>

\* `if agent.state != 'dead': agent.update(environment, agents)`
UpdateAgent ==
    /\ pc = "agents"
    /\ idx <= Len(agents)
    /\ agents[idx].state # "dead"
    /\ \E r \in UpdateDraws :
         \E W \in {update([agents |-> agents, resources |-> resources,
                           log |-> NoLog], idx, r)} :
            /\ agents' = W.agents
            /\ resources' = W.resources
            /\ removed' = IF W.log.ate = 0 THEN removed
                          ELSE removed \cup {W.log.ate}
            /\ last' = Call("update", idx, 0, W.log)
            /\ hist' = note_update(hist, idx, W, ticks)
    /\ idx' = IF idx = Len(agents) THEN 1 ELSE idx + 1
    /\ pc' = IF idx = Len(agents) THEN after_agents ELSE "agents"
    /\ jdx' = 1
    /\ UNCHANGED <<spawn_timer, next_rid, next_id, frame_count, mated,
                   new_agents, ticks, species_config, config_screen>>

\* a dead agent is passed over by the loop
SkipDeadAgent ==
    /\ pc = "agents"
    /\ idx <= Len(agents)
    /\ agents[idx].state = "dead"
    /\ idx' = IF idx = Len(agents) THEN 1 ELSE idx + 1
    /\ pc' = IF idx = Len(agents) THEN after_agents ELSE "agents"
    /\ jdx' = 1
    /\ last' = Call("skip", idx, 0, NoLog)
    /\ UNCHANGED <<agents, resources, spawn_timer, next_rid, next_id,
                   frame_count, mated, new_agents, ticks, removed, hist,
                   species_config, config_screen>>

\* a faulty variant: the loops run over all agents, not over alive_agents
is_nearby_with_dead(ags, i, j) ==
    /\ ags[j].id # ags[i].id
    /\ DistLE(ags[i].position, ags[j].position, INTERACTION_RADIUS * PScale)

\* a faulty variant: the distance to the other agent is not checked
is_nearby_anywhere(ags, i, j) ==
    /\ ags[i].state # "dead"
    /\ ags[j].state # "dead"
    /\ ags[j].id # ags[i].id

\* handle_agent_interactions: the pair (agent, other) = (idx, jdx) of the
\* nested loops over alive_agents; `other` is in `nearby` when it is another
\* live agent within INTERACTION_RADIUS
is_nearby(ags, i, j) ==
    /\ ags[i].state # "dead"
    /\ ags[j].state # "dead"
    /\ ags[j].id # ags[i].id
    /\ DistLE(ags[i].position, ags[j].position, INTERACTION_RADIUS * PScale)

LearnStep ==
    /\ pc = "learn"
    /\ IF is_nearby(agents, idx, jdx)
       THEN /\ agents' = [agents EXCEPT ![idx] = learn_from(@, agents[jdx])]
            /\ last' = Call("learn_from", idx, jdx, NoLog)
       ELSE /\ agents' = agents
            /\ last' = Call("not_nearby", idx, jdx, NoLog)
    /\ IF jdx < Len(agents)
       THEN /\ jdx' = jdx + 1
            /\ UNCHANGED <<idx, pc>>
       ELSE /\ jdx' = 1
            /\ IF idx < Len(agents)
               THEN idx' = idx + 1 /\ pc' = pc
               ELSE idx' = 1 /\ pc' = after_learn
    /\ hist' = note_sweep(hist, agents, idx, jdx)
    /\ UNCHANGED <<resources, spawn_timer, next_rid, next_id, frame_count,
                   mated, new_agents, ticks, removed, species_config,
                   config_screen>>

\* handle_reproduction: one iteration of `for agent in alive_agents`
unmated_alive(ags, m) ==
    SelectSeq([k \in 1..Len(ags) |-> k], LAMBDA k :
        ags[k].state # "dead" /\ ags[k].id \notin m)

ReproductionStep ==
    /\ pc = "reproduce"
    /\ \E r \in ReproduceDraws :
         LET agent == agents[idx]
             mate == IF agent.state # "dead" /\ agent.id \notin mated
                        /\ can_reproduce(agent)
                     THEN find_mate(agents, idx, unmated_alive(agents, mated),
                                    r.choice)
                     ELSE 0
         IN IF mate # 0
            THEN /\ Len(agents) + Len(new_agents) < MaxAgents
                 /\ new_agents' = Append(new_agents,
                        offspring(agent, agents[mate], next_id, r))
                 /\ next_id' = next_id + 1
                 /\ agents' = reproduce(agents, idx, mate)
                 /\ mated' = mated \cup {agent.id, agents[mate].id}
                 /\ last' = Call("reproduce", idx, mate, NoLog)
            ELSE /\ UNCHANGED <<agents, new_agents, next_id, mated>>
                 /\ last' = Call("no_mate", idx, 0, NoLog)
    /\ IF idx < Len(agents)
       THEN idx' = idx + 1 /\ pc' = pc
       ELSE idx' = 1 /\ pc' = "end"
    /\ UNCHANGED <<resources, spawn_timer, next_rid, frame_count, jdx, ticks,
                   removed, hist, species_config, config_screen>>

\* agents.extend(new_agents); frame_count += 1
EndTick ==
    /\ pc = "end"
    /\ agents' = agents \o new_agents
    /\ new_agents' = <<>>
    /\ mated' = {}
    /\ frame_count' = frame_count + 1
    /\ ticks' = ticks + 1
    /\ pc' = "env"
    /\ idx' = 1
    /\ last' = Call("end_tick", 0, 0, NoLog)
    /\ hist' = note_tick(hist, agents \o new_agents)
    /\ UNCHANGED <<resources, spawn_timer, next_rid, next_id, jdx, removed,
                   species_config, config_screen>>

Next ==
    \/ EnvironmentUpdate
    \/ UpdateAgent
    \/ SkipDeadAgent
    \/ LearnStep
    \/ ReproductionStep
    \/ EndTick

-----------------------------------------------------------------------------
(* Initial states: snapshots of a run at the start of a main-loop          *)
(* iteration.  Every agent was built by Agent(...) and has since aged,     *)
(* metabolised, fought and eaten; ids follow the list order.               *)

P(x, y) == <<x * PScale, y * PScale>>
Dist(ws) == [w |-> ws, d |-> SumSeq(ws)]
Probs(f, c, s) == [foraging |-> Dist(f), combat |-> Dist(c), flee |-> Dist(s)]
Half == [n |-> 1, d |-> 2]
FirstPicks == [pickF |-> 0, pickC |-> 0, pickS |-> 0]

\* an agent created at frame 0 and observed `frames` updates later
Snapshot(id, species, pos, hp, energy, frames, hunger, probs) ==
    [Agent(id, species, pos, hunger, probs, FirstPicks) EXCEPT
        !.hp = hp * HScale,
        !.energy = energy * EScale,
        !.age = frames * AGE_INCREMENT,
        !.time_since_last_reproduction = frames * AGE_INCREMENT]

Plain == Probs(<<4, 3, 2, 1>>, <<5, 3, 2>>, <<5, 3, 2>>)
Keen == Probs(<<1, 1, 1, 7>>, <<1, 1, 8>>, <<1, 8, 1>>)
Wary == Probs(<<1, 7, 1, 1>>, <<1, 8, 1>>, <<1, 1, 8>>)
Narrow == Probs(<<0, 8, 1, 1>>, <<0, 9, 1>>, <<1, 0, 9>>)

\* by the left edge of the field, a strong gorilla next to the badly hurt,
\* starving bonobo that attacked it last, a weaker chimp in sight
Duel(first) ==
    LET g(id) == [Snapshot(id, "Gorilla", P(11, 400), 150, 90, 601, Half, Plain)
                    EXCEPT !.last_attacker = IF first = "Gorilla" THEN 2 ELSE 1]
        b(id) == [Snapshot(id, "Bonobo", P(1, 400), 8, 10, 601, Half, Wary)
                    EXCEPT !.state = "fleeing"]
        c == Snapshot(2, "Chimp",
                      IF first = "Gorilla" THEN P(11, 405) ELSE P(41, 400),
                      60, 60, 601, Half, Plain)
    IN [frame_count |-> 601, spawn_timer |-> 1,
        agents |-> IF first = "Gorilla" THEN <<g(0), b(1), c>>
                   ELSE <<b(0), g(1), c>>,
        resources |-> <<>>]

\* hungry agents beside food
Forage ==
    [frame_count |-> 601, spawn_timer |-> 59,
     agents |->
        <<[Snapshot(0, "Gorilla", P(200, 300), 100, 30, 601, Half, Plain)
              EXCEPT !.state = "foraging"],
          [Snapshot(1, "Chimp", P(600, 600), 100, 50, 601,
                    [n |-> 3, d |-> 5], Keen)
              EXCEPT !.current_foraging_strategy = "Ambush"],
          Snapshot(2, "Bonobo", P(200, 700), 60, 85, 601, [n |-> 4, d |-> 5], Wary)>>,
     resources |->
        <<Resource(1, "meat", P(203, 300), RESOURCE_MEAT_NUTRITION),
          Resource(2, "plant", P(212, 300), RESOURCE_PLANT_NUTRITION),
          Resource(3, "plant", P(205, 300), RESOURCE_PLANT_NUTRITION),
          Resource(4, "meat", P(610, 600), RESOURCE_MEAT_NUTRITION),
          Resource(5, "plant", P(204, 702), RESOURCE_PLANT_NUTRITION),
          Resource(6, "plant", P(500, 100), RESOURCE_PLANT_NUTRITION)>>]

\* neighbours of unequal and of equal fitness, on a learning frame, and among
\* them an agent that died of old age in good health
School ==
    [frame_count |-> 630, spawn_timer |-> 30,
     agents |->
        <<Snapshot(0, "Chimp", P(300, 300), 100, 110, 630, Half, Plain),
          Snapshot(1, "Chimp", P(340, 300), 50, 110, 630, [n |-> 7, d |-> 10], Keen),
          Snapshot(2, "Chimp", P(300, 350), 50, 110, 630, [n |-> 1, d |-> 5], Wary),
          Snapshot(3, "Chimp", P(700, 700), 100, 115, 630, Half, Wary),
          [Snapshot(4, "Chimp", P(320, 320), 100, 119, 81819, Half, Keen)
              EXCEPT !.state = "dead"]>>,
     resources |-> <<>>]

\* fertile neighbours on a reproduction frame, and one whose energy will be
\* exactly 40% of the maximum when the sweep runs
Mating ==
    [frame_count |-> 660, spawn_timer |-> 0,
     agents |->
        <<Snapshot(0, "Chimp", P(30, 30), 90, 110, 660, [n |-> 4, d |-> 5], Keen),
          Snapshot(1, "Chimp", P(10, 20), 80, 100, 660, [n |-> 4, d |-> 5], Plain),
          Snapshot(2, "Chimp", P(60, 40), 100, 100, 660, [n |-> 3, d |-> 4], Narrow),
          [Snapshot(3, "Chimp", P(30, 125), 100, 48, 660, [n |-> 1, d |-> 5], Plain)
              EXCEPT !.energy = @ + METABOLISM_RATE]>>,
     resources |-> <<>>]

\* chimps that fight as a group and a bonobo that was attacked before
Skirmish ==
    [frame_count |-> 601, spawn_timer |-> 1,
     agents |->
        <<[Snapshot(0, "Chimp", P(500, 400), 100, 110, 601, Half, Keen)
              EXCEPT !.current_combat_strategy = "Group"],
          [Snapshot(1, "Chimp", P(520, 400), 100, 110, 601, Half, Keen)
              EXCEPT !.current_combat_strategy = "Group"],
          [Snapshot(2, "Gorilla", P(510, 410), 60, 50, 601, Half, Plain)
              EXCEPT !.last_attacker = 4, !.current_combat_strategy = "Defensive"],
          [Snapshot(3, "Bonobo", P(505, 395), 80, 105, 601, Half, Wary)
              EXCEPT !.last_attacker = 3, !.current_combat_strategy = "Defensive"]>>,
     resources |-> <<>>]

\* an agent about to reach its species' maximum age, and agents at the end
\* of their hp, of their energy and of both
Dusk ==
    [frame_count |-> 81818, spawn_timer |-> 38,
     agents |->
        <<Snapshot(0, "Gorilla", P(100, 500), 120, 80, 81818, Half, Plain),
          [Snapshot(1, "Bonobo", P(700, 100), 40, 1, 600, Half, Plain)
              EXCEPT !.energy = METABOLISM_RATE],
          [Snapshot(2, "Gorilla", P(400, 100), 1, 19, 600, Half, Wary)
              EXCEPT !.hp = 2, !.state = "fleeing"],
          [Snapshot(3, "Chimp", P(700, 700), 1, 1, 600, Half, Plain)
              EXCEPT !.hp = 2, !.energy = METABOLISM_RATE, !.state = "fleeing"]>>,
     resources |-> <<>>]

\* a badly hurt, hungry chimp that is still fitter than the gorilla beside it
Cornered ==
    [frame_count |-> 601, spawn_timer |-> 1,
     agents |->
        <<Snapshot(0, "Chimp", P(400, 400), 25, 84, 601, [n |-> 4, d |-> 5], Plain),
          Snapshot(1, "Gorilla", P(430, 400), 60, 30, 601, Half, Plain)>>,
     resources |-> <<>>]

\* a healthy chimp that a gorilla updated after it has just hit, the gorilla
\* having spent the last of its energy on the attack
Ambushed ==
    [frame_count |-> 601, spawn_timer |-> 1,
     agents |->
        <<[Snapshot(0, "Chimp", P(400, 400), 70, 60, 601, Half, Plain)
              EXCEPT !.state = "fleeing", !.last_attacker = 2,
                     !.threat_position = P(430, 400)],
          [Snapshot(1, "Gorilla", P(430, 400), 100, 1, 601, Half, Plain)
              EXCEPT !.state = "fighting", !.energy = METABOLISM_RATE,
                     !.stats.attacks = 1]>>,
     resources |-> <<>>]

\* a pair of mature chimps with a dead chimp lying between them; the first
\* became a parent 90 iterations ago
Nursery ==
    LET at(a, target) == [a EXCEPT !.wander_target = target]
    IN [frame_count |-> 660, spawn_timer |-> 0,
        agents |->
           <<[at(Snapshot(0, "Chimp", P(100, 100), 90, 110, 660,
                          [n |-> 4, d |-> 5], Plain), P(100, 300))
                 EXCEPT !.time_since_last_reproduction = 90 * AGE_INCREMENT,
                        !.total_offspring = 1, !.stats.offspring = 1],
             [Snapshot(1, "Chimp", P(105, 100), 0, 60, 660, Half, Plain)
                 EXCEPT !.state = "dead"],
             at(Snapshot(2, "Chimp", P(110, 100), 80, 100, 660,
                         [n |-> 4, d |-> 5], Plain), P(100, 300))>>,
        resources |-> <<>>]

\* a field that holds every plant it can and all but one of the meats, a
\* spawn attempt due, and a lone sated gorilla away from the food
Glut ==
    [frame_count |-> 601, spawn_timer |-> RESOURCE_SPAWN_INTERVAL - 1,
     agents |->
        <<[Snapshot(0, "Gorilla", P(700, 700), 150, 95, 601, Half, Plain)
              EXCEPT !.wander_target = P(700, 600)]>>,
     resources |->
        [k \in 1..(RESOURCE_MAX_PLANT + RESOURCE_MAX_MEAT - 1) |->
            IF k <= RESOURCE_MAX_PLANT
            THEN Resource(k, "plant", P(20 + 5 * k, 100), RESOURCE_PLANT_NUTRITION)
            ELSE Resource(k, "meat", P(20 + 5 * (k - RESOURCE_MAX_PLANT), 200),
                          RESOURCE_MEAT_NUTRITION)]]

\* two hungry bonobos on either side of a single plant
Contest ==
    [frame_count |-> 601, spawn_timer |-> 1,
     agents |->
        <<Snapshot(0, "Bonobo", P(300, 300), 70, 40, 601, Half, Plain),
          Snapshot(1, "Bonobo", P(310, 300), 70, 45, 601, Half, Wary)>>,
     resources |->
        <<Resource(1, "plant", P(305, 300), RESOURCE_PLANT_NUTRITION)>>]

Scenarios == {Duel("Gorilla"), Duel("Bonobo"), Forage, School, Mating,
              Skirmish, Dusk, Cornered, Ambushed, Nursery, Glut, Contest}

Init ==
    \E sc \in Scenarios :
        /\ agents = sc.agents
        /\ resources = sc.resources
        /\ spawn_timer = sc.spawn_timer
        /\ next_rid = Len(sc.resources) + 1
        /\ next_id = Len(sc.agents)
        /\ frame_count = sc.frame_count
        /\ pc = "env"
        /\ idx = 1
        /\ jdx = 1
        /\ mated = {}
        /\ new_agents = <<>>
        /\ ticks = 0
        /\ removed = {}
        /\ last = NoCall
        /\ hist = NoHist(sc.agents)
        /\ species_config = SPECIES_CONFIG
        /\ config_screen = NoScreen

Spec == Init /\ [][Next]_vars

-----------------------------------------------------------------------------
(* One agent advanced alone: no other agents, no resources.  The main loop  *)
(* never stops calling update on an agent that is not dead; a step is the  *)
(* thirty iterations between two interaction checks.                       *)

\* an agent built with full energy at age 0 whose hp was then set to 1; its
\* flee distribution never picks Scatter
Frail(species) ==
    [Agent(0, species, P(400, 400), Half,
           Probs(<<4, 3, 2, 1>>, <<5, 3, 2>>, <<1, 1, 0>>), FirstPicks)
        EXCEPT !.hp = 1 * HScale]

DeathInit ==
    /\ \E species \in DOMAIN SPECIES_CONFIG : agents = <<Frail(species)>>
    /\ resources = <<>>
    /\ spawn_timer = 0
    /\ next_rid = 1
    /\ next_id = 1
    /\ frame_count = 0
    /\ pc = "agents"
    /\ idx = 1
    /\ jdx = 1
    /\ mated = {}
    /\ new_agents = <<>>
    /\ ticks = 0
    /\ removed = {}
    /\ last = NoCall
    /\ hist = NoHist(agents)
    /\ species_config = SPECIES_CONFIG
    /\ config_screen = NoScreen

\* `for agent in agents: if agent.state != 'dead': agent.update(...)`, run
\* by n successive iterations of the main loop, for the agent i
RECURSIVE advance(_, _, _, _)
advance(W, i, r, n) ==
    IF n = 0 \/ W.agents[i].state = "dead" THEN W
    ELSE Only({advance(V, i, r, n - 1) : V \in {update(W, i, r)}})

\* the iterations of the main loop from one interaction check to the next,
\* for the only agent
AdvanceAlone ==
    /\ agents[1].state # "dead"
    /\ \E r \in UpdateDraws :
         \E W \in {advance([agents |-> agents, resources |-> resources,
                            log |-> NoLog], 1, r, INTERACTION_INTERVAL)} :
            /\ agents' = W.agents
            /\ last' = Call("update", 1, 0, W.log)
    /\ UNCHANGED <<resources, spawn_timer, next_rid, next_id, frame_count, pc,
                   idx, jdx, mated, new_agents, ticks, removed, hist,
                   species_config, config_screen>>

SpecDeath == DeathInit /\ [][AdvanceAlone]_vars /\ WF_vars(AdvanceAlone)

-----------------------------------------------------------------------------
(* main(): the configuration screen, then the initial population.  The     *)
(* sliders are left where ConfigScreen puts them, so a species' numbers    *)
(* stay those of config.py; the diet checkboxes and the species buttons    *)
(* are operated freely.                                                    *)

InitialCount == 1

species_list == <<"Gorilla", "Chimp", "Bonobo">>

\* what config.py can define as SPECIES_CONFIG: the configuration it ships
\* with, and that configuration with one diet emptied or one species left out
ConfigFiles ==
    {SPECIES_CONFIG}
      \cup {[SPECIES_CONFIG EXCEPT ![s].diet = {}] : s \in DOMAIN SPECIES_CONFIG}
      \cup {[t \in DOMAIN SPECIES_CONFIG \ {s} |-> SPECIES_CONFIG[t]] :
               s \in DOMAIN SPECIES_CONFIG}

current_species(scr) == species_list[scr.species_index + 1]

\* ConfigScreen._create_controls: the checkboxes show the current species'
\* diet
create_controls(scr) ==
    LET current_diet == scr.current_config[current_species(scr)].diet
    IN [scr EXCEPT !.checkboxes = [plant |-> "plant" \in current_diet,
                                   meat |-> "meat" \in current_diet]]

\* ConfigScreen._update_config_from_controls: the current species' diet is
\* rebuilt from the checkboxes, 'plant' standing in for an empty selection
update_config_from_controls(scr) ==
    LET diet == {f \in {"plant", "meat"} : scr.checkboxes[f]}
    IN IF diet = {}
       THEN [scr EXCEPT !.current_config[current_species(scr)].diet = {"plant"},
                        !.checkboxes.plant = TRUE]
       ELSE [scr EXCEPT !.current_config[current_species(scr)].diet = diet]

SetupInit ==
    /\ species_config \in ConfigFiles
    /\ config_screen = NoScreen
    /\ agents = <<>>
    /\ resources = <<>>
    /\ spawn_timer = 0
    /\ next_rid = 1
    /\ next_id = 0
    /\ frame_count = 0
    /\ pc = "main"
    /\ idx = 1
    /\ jdx = 1
    /\ mated = {}
    /\ new_agents = <<>>
    /\ ticks = 0
    /\ removed = {}
    /\ last = NoCall
    /\ hist = NoHist(<<>>)

\* ConfigScreen.__init__: copies of config.SPECIES_CONFIG, the first species
\* current, its controls created (a KeyError if the configuration lacks it)
OpenConfigScreen ==
    /\ pc = "main"
    /\ LET scr == [current_config |-> species_config,
                   original_config |-> species_config,
                   species_index |-> 0,
                   checkboxes |-> [plant |-> FALSE, meat |-> FALSE],
                   shown |-> FALSE]
       IN IF current_species(scr) \in DOMAIN scr.current_config
          THEN /\ config_screen' = create_controls(scr)
               /\ pc' = "config_screen"
          ELSE /\ config_screen' = scr
               /\ pc' = "crashed"
    /\ last' = Call("ConfigScreen", 0, 0, NoLog)
    /\ UNCHANGED <<agents, resources, spawn_timer, next_rid, next_id,
                   frame_count, idx, jdx, mated, new_agents, ticks, removed,
                   hist, species_config>>

\* handle_events, a click on a diet checkbox
ClickCheckbox ==
    /\ pc = "config_screen"
    /\ \E f \in {"plant", "meat"} :
         config_screen' = [config_screen EXCEPT !.checkboxes[f] = ~@]
    /\ last' = Call("checkbox", 0, 0, NoLog)
    /\ UNCHANGED <<agents, resources, spawn_timer, next_rid, next_id,
                   frame_count, pc, idx, jdx, mated, new_agents, ticks,
                   removed, hist, species_config>>

\* handle_events, the left or right key or button: _switch_species
SwitchSpecies ==
    /\ pc = "config_screen"
    /\ \E direction \in {-1, 1} :
         LET scr == [update_config_from_controls(config_screen) EXCEPT
                       !.species_index =
                          (@ + direction) % Len(species_list)]
         IN IF current_species(scr) \in DOMAIN scr.current_config
            THEN /\ config_screen' = create_controls(scr)
                 /\ pc' = "config_screen"
            ELSE /\ config_screen' = scr
                 /\ pc' = "crashed"
    /\ last' = Call("_switch_species", 0, 0, NoLog)
    /\ UNCHANGED <<agents, resources, spawn_timer, next_rid, next_id,
                   frame_count, idx, jdx, mated, new_agents, ticks, removed,
                   hist, species_config>>

\* handle_events, the reset button
ResetConfig ==
    /\ pc = "config_screen"
    /\ config_screen' =
         create_controls([config_screen EXCEPT
                            !.current_config = config_screen.original_config])
    /\ last' = Call("reset", 0, 0, NoLog)
    /\ UNCHANGED <<agents, resources, spawn_timer, next_rid, next_id,
                   frame_count, pc, idx, jdx, mated, new_agents, ticks,
                   removed, hist, species_config>>

\* ConfigScreen.draw, once the events of a frame are handled: the summary
\* looks every listed species up in the configuration
DrawConfigScreen ==
    /\ pc = "config_screen"
    /\ IF \A k \in 1..Len(species_list) :
             species_list[k] \in DOMAIN config_screen.current_config
       THEN /\ config_screen' = [config_screen EXCEPT !.shown = TRUE]
            /\ pc' = "config_screen"
       ELSE /\ config_screen' = config_screen
            /\ pc' = "crashed"
    /\ last' = Call("draw", 0, 0, NoLog)
    /\ UNCHANGED <<agents, resources, spawn_timer, next_rid, next_id,
                   frame_count, idx, jdx, mated, new_agents, ticks, removed,
                   hist, species_config>>

\* handle_events, the window closed or the escape key
QuitConfigScreen ==
    /\ pc = "config_screen"
    /\ pc' = "quit"
    /\ last' = Call("quit", 0, 0, NoLog)
    /\ UNCHANGED <<agents, resources, spawn_timer, next_rid, next_id,
                   frame_count, idx, jdx, mated, new_agents, ticks, removed,
                   hist, species_config, config_screen>>

\* handle_events, the return key or the start button, then get_config and
\* apply_species_config
StartSimulation ==
    /\ pc = "config_screen"
    /\ LET scr == update_config_from_controls(
                      update_config_from_controls(config_screen))
       IN /\ config_screen' = scr
          /\ species_config' = scr.current_config
    /\ pc' = "populate"
    /\ last' = Call("apply_species_config", 0, 0, NoLog)
    /\ UNCHANGED <<agents, resources, spawn_timer, next_rid, next_id,
                   frame_count, idx, jdx, mated, new_agents, ticks, removed,
                   hist>>

\* create_initial_population, one Agent(species, position): the gorillas,
\* then the chimps, then the bonobos.  Agent.__init__ takes the identity,
\* then looks the species up in config.SPECIES_CONFIG (a KeyError if it is
\* not there); it does not look at the diet.
CreateAgent ==
    /\ pc = "populate"
    /\ LET species == species_list[(Len(agents) \div InitialCount) + 1]
       IN IF species \in DOMAIN species_config
          THEN /\ \E position \in {P(50, 50), P(400, 400)} :
                    agents' = Append(agents,
                                     Agent(next_id, species, position, Half,
                                           Plain, FirstPicks))
               /\ pc' = IF Len(agents) + 1 = InitialCount * Len(species_list)
                        THEN "running" ELSE "populate"
          ELSE /\ agents' = agents
               /\ pc' = "crashed"
    /\ next_id' = next_id + 1
    /\ last' = Call("Agent", 0, 0, NoLog)
    /\ UNCHANGED <<resources, spawn_timer, next_rid, frame_count, idx, jdx,
                   mated, new_agents, ticks, removed, hist, species_config,
                   config_screen>>

SetupNext ==
    \/ OpenConfigScreen
    \/ ClickCheckbox
    \/ SwitchSpecies
    \/ ResetConfig
    \/ DrawConfigScreen
    \/ QuitConfigScreen
    \/ StartSimulation
    \/ CreateAgent

SpecSetup == SetupInit /\ [][SetupNext]_vars

-----------------------------------------------------------------------------
(* Properties *)

\* every agent there is: those in the list and those born in this sweep
Everyone == agents \o new_agents

\* C1: once an agent's state is 'dead' it stays 'dead': no step of the
\* program (no update, attack, learning, reproduction or end of tick) gives
\* a dead agent any other state
C1_DeadIsTerminal ==
    [][\A k \in 1..Len(agents) :
          agents[k].state = "dead" => agents'[k].state = "dead"]_vars

\* a live agent dispatched a combat strategy with a dead enemy within its
\* attack search radius, and the dead enemy is still dead
C1_Witness ==
    /\ last.op = "update"
    /\ last.log.strategy \in {"Aggressive", "Group", "Defensive"}
    /\ \E k \in 1..Len(last.agents) :
          /\ last.agents[k].state = "dead"
          /\ agents[k].state = "dead"
          /\ last.agents[k].species # last.agents[last.actor].species
          /\ DistLT(last.agents[last.actor].position,
                    last.agents[k].position, 100 * PScale)

\* C2: in every reachable state, for every agent and every context, each
\* probability is non-negative and the probabilities of the context sum to 1
C2_Distributions ==
    \A k \in 1..Len(Everyone) :
      /\ DOMAIN Everyone[k].strategy_probs = {"foraging", "combat", "flee"}
      /\ \A context \in DOMAIN Everyone[k].strategy_probs :
        LET p == Everyone[k].strategy_probs[context]
        IN /\ p.d > 0
           /\ Len(p.w) = Len(StrategiesOf(context))
           /\ \A n \in 1..Len(p.w) : p.w[n] >= 0
           /\ SumSeq(p.w) = p.d

\* an agent that has learned and an agent that was born are both present
C2_Witness ==
    /\ \E k \in 1..Len(Everyone) : Everyone[k].stats.communications > 0
    /\ new_agents # <<>>

\* C3: in every reachable state every agent has hp <= max_hp and
\* energy <= max_energy
C3_VitalsCapped ==
    \A k \in 1..Len(Everyone) :
        /\ Everyone[k].hp <= MaxHp(Everyone[k])
        /\ Everyone[k].energy <= MaxEnergy(Everyone[k])

\* an agent has just eaten a resource that would have taken its energy past
\* the maximum
C3_Witness ==
    /\ last.op = "update"
    /\ last.log.ate # 0
    /\ \E x \in 1..Len(last.resources) :
          /\ last.resources[x].rid = last.log.ate
          /\ last.agents[last.actor].energy - METABOLISM_RATE
                + last.resources[x].amount * EScale
                > MaxEnergy(agents[last.actor])
    /\ agents[last.actor].energy = MaxEnergy(agents[last.actor])

\* the state is the end of a complete tick: all updates and sweeps are done
EndOfTick == pc = "env" /\ last.op = "end_tick"

\* C4 as stated: at the end of every complete tick every agent that is not
\* dead has 0 < hp <= max_hp and 0 < energy <= max_energy
C4_EndOfTickVitals ==
    EndOfTick =>
        \A k \in 1..Len(agents) :
            agents[k].state # "dead" =>
                /\ 0 < agents[k].hp /\ agents[k].hp <= MaxHp(agents[k])
                /\ 0 < agents[k].energy /\ agents[k].energy <= MaxEnergy(agents[k])

\* C4 amended: at the end of every complete tick every agent that is not
\* dead has hp <= max_hp and energy <= max_energy; hp > 0 and energy > 0 hold
\* where the agent's own update checks them: an agent that its update leaves
\* not dead entered the update with positive hp and energy and still had
\* 0 < hp <= max_hp and 0 < energy <= max_energy after metabolism and
\* starvation damage
C4_VitalsAtDeathCheck ==
    /\ EndOfTick =>
         \A k \in 1..Len(agents) :
             agents[k].state # "dead" =>
                 /\ agents[k].hp <= MaxHp(agents[k])
                 /\ agents[k].energy <= MaxEnergy(agents[k])
    /\ (last.op = "update" /\ agents[last.actor].state # "dead") =>
         LET before == last.agents[last.actor]
             checked == [before EXCEPT
                 !.energy = @ - METABOLISM_RATE,
                 !.hp = IF (before.energy - METABOLISM_RATE) * 10
                              < MaxEnergy(before) * 2
                        THEN @ - (2 * HScale) \div 10 ELSE @]
         IN /\ 0 < before.hp /\ 0 < before.energy
            /\ 0 < checked.hp /\ checked.hp <= MaxHp(before)
            /\ 0 < checked.energy /\ checked.energy <= MaxEnergy(before)

\* a tick has ended with an agent that is not dead although an attack made
\* after its own update took its hp to zero or below
C4_Witness ==
    /\ EndOfTick
    /\ \E k \in 1..Len(agents) :
          /\ agents[k].state = "fleeing"
          /\ agents[k].hp <= 0
          /\ agents[k].last_attacker # 0

\* the teacher of the last learn_from call is strictly fitter than the student
StrictlyFitter ==
    LET fs == calculate_fitness(last.agents[last.actor])
        ft == calculate_fitness(last.agents[last.target])
    IN FracLT(fs.n, fs.d, ft.n, ft.d)

\* C5: a learn_from call whose teacher's fitness is less than or equal to
\* the student's leaves the student as it was (distributions, hunger
\* threshold and communications counter), and no learn_from call changes
\* the teacher
C5_NoLearningFromUnfit ==
    last.op = "learn_from" =>
        /\ agents[last.target] = last.agents[last.target]
        /\ ~StrictlyFitter =>
             /\ agents[last.actor].strategy_probs
                    = last.agents[last.actor].strategy_probs
             /\ agents[last.actor].hunger_threshold
                    = last.agents[last.actor].hunger_threshold
             /\ agents[last.actor].stats.communications
                    = last.agents[last.actor].stats.communications
             /\ agents = last.agents

\* learn_from was called with a teacher of exactly the student's fitness
\* whose distributions and hunger threshold differ from the student's
C5_Witness ==
    /\ last.op = "learn_from"
    /\ calculate_fitness(last.agents[last.actor]) = calculate_fitness(last.agents[last.target])
    /\ last.agents[last.actor].strategy_probs
          # last.agents[last.target].strategy_probs
    /\ last.agents[last.actor].hunger_threshold
          # last.agents[last.target].hunger_threshold

\* y lies between x and t, fractions: equal to both when x = t, otherwise
\* strictly off x on t's side and not beyond t
MovedToward(x, y, t) ==
    IF FracLT(x.n, x.d, t.n, t.d)
    THEN FracLT(x.n, x.d, y.n, y.d) /\ FracLE(y.n, y.d, t.n, t.d)
    ELSE IF FracLT(t.n, t.d, x.n, x.d)
    THEN FracLT(y.n, y.d, x.n, x.d) /\ FracLE(t.n, t.d, y.n, y.d)
    ELSE Frac(y.n, y.d) = Frac(x.n, x.d)

\* C6: a learn_from call whose teacher is strictly fitter replaces every
\* probability of the three distributions and the hunger threshold of the
\* student by 0.9 * student + 0.1 * teacher, so each value moves strictly
\* toward the teacher's (or stays when they are equal) without passing it;
\* the teacher is unchanged and the student's communications counter grows
\* by exactly 1
C6_Blending ==
    (last.op = "learn_from" /\ StrictlyFitter) =>
        LET s == last.agents[last.actor]
            t == last.agents[last.target]
            s1 == agents[last.actor]
        IN /\ \A context \in DOMAIN s.strategy_probs :
                LET p == s.strategy_probs[context]
                    q == t.strategy_probs[context]
                    p1 == s1.strategy_probs[context]
                IN \A k \in 1..Len(p.w) :
                      /\ Frac(p1.w[k], p1.d)
                           = Frac(9 * p.w[k] * q.d + q.w[k] * p.d, 10 * p.d * q.d)
                      /\ MovedToward([n |-> p.w[k], d |-> p.d],
                                     [n |-> p1.w[k], d |-> p1.d],
                                     [n |-> q.w[k], d |-> q.d])
           /\ Frac(s1.hunger_threshold.n, s1.hunger_threshold.d)
                = Frac(9 * s.hunger_threshold.n * t.hunger_threshold.d
                          + t.hunger_threshold.n * s.hunger_threshold.d,
                       10 * s.hunger_threshold.d * t.hunger_threshold.d)
           /\ MovedToward(s.hunger_threshold, s1.hunger_threshold,
                          t.hunger_threshold)
           /\ agents[last.target] = t
           /\ s1.stats.communications = s.stats.communications + 1

\* learn_from was called with a strictly fitter teacher whose hunger
\* threshold and some probability differ from the student's
C6_Witness ==
    /\ last.op = "learn_from"
    /\ StrictlyFitter
    /\ last.agents[last.actor].hunger_threshold
          # last.agents[last.target].hunger_threshold
    /\ last.agents[last.actor].strategy_probs.foraging
          # last.agents[last.target].strategy_probs.foraging
    /\ agents[last.actor].stats.communications > 1

\* the position lies in x in [20, MAP_WIDTH - 20], y in [20, SCREEN_HEIGHT - 20]
InsideMap(pos) ==
    /\ 20 * PScale <= pos[1] /\ pos[1] <= (MAP_WIDTH - 20) * PScale
    /\ 20 * PScale <= pos[2] /\ pos[2] <= (SCREEN_HEIGHT - 20) * PScale

\* the distribution's probabilities are non-negative and sum to 1
SumsToOne(p) ==
    /\ p.d > 0
    /\ \A n \in 1..Len(p.w) : p.w[n] >= 0
    /\ SumSeq(p.w) = p.d

\* mutation variates tried for every strategy: the extremes -MUTATION_RATE
\* and +MUTATION_RATE, zero and the midpoints
MutationVariates == {0, 25, 50, 75, 100}

\* C7: a reproduce call in the sweep (two eligible parents of one species
\* within mating range) adds exactly one offspring, of the parents' species,
\* at a position inside the map for every jitter value, and with three
\* distributions that each sum to 1 for every choice of mutation deltas
C7_Offspring ==
    last.op = "reproduce" =>
        LET a == last.agents[last.actor]
            m == last.agents[last.target]
            child == new_agents[Len(new_agents)]
        IN /\ new_agents = Append(last.new_agents, child)
           /\ Len(agents) = Len(last.agents)
           /\ child.species = a.species
           /\ child.species = m.species
           /\ InsideMap(child.position)
           /\ \A context \in DOMAIN child.strategy_probs :
                 SumsToOne(child.strategy_probs[context])
           /\ \A j \in 0..99 :
                 /\ InsideMap(child_position(a, m, [jx |-> j, jy |-> 99 - j]))
                 /\ InsideMap(child_position(a, m, [jx |-> j, jy |-> j]))
           /\ \A context \in DOMAIN a.strategy_probs :
                 \A mu \in [1..Len(a.strategy_probs[context].w) -> MutationVariates] :
                     SumsToOne(inherit_dist(a.strategy_probs[context],
                                            m.strategy_probs[context], mu))

\* two eligible parents within mating range have reproduced; the jitter put
\* the offspring on the map's edge and a mutation floored one probability at 0
C7_Witness ==
    /\ last.op = "reproduce"
    /\ can_reproduce(last.agents[last.actor])
    /\ can_reproduce(last.agents[last.target])
    /\ last.agents[last.actor].species = last.agents[last.target].species
    /\ DistLT(last.agents[last.actor].position,
              last.agents[last.target].position, MATING_RANGE * PScale)
    /\ new_agents[Len(new_agents)].position[1] = 20 * PScale
    /\ \E n \in 1..4 : new_agents[Len(new_agents)].strategy_probs.foraging.w[n] = 0

\* C8: an agent with hp = 1, full energy and age 0 that is advanced tick
\* after tick without combat or feeding is eventually dead, with cause
\* HP depleted or Energy depleted and not Old age, and stays dead from then on
C8_DeathReached ==
    <>[](/\ agents[1].state = "dead"
         /\ last.log.cause \in {"HP depleted", "Energy depleted"})

\* the lone agent has starved: it lived on until its energy fell under a
\* fifth of the maximum and then died of its hp
C8_Witness ==
    /\ Len(agents) = 1
    /\ agents[1].state = "dead"
    /\ last.op = "update"
    /\ last.log.cause = "HP depleted"
    /\ last.agents[1].state # "dead"
    /\ agents[1].energy * 5 < MaxEnergy(agents[1])
    /\ agents[1].age < SPECIES_CONFIG[agents[1].species].max_age * AScale
    /\ agents[1].stats.meals = 0
    /\ agents[1].stats.attacks = 0

\* the vitals with which the actor of the last update call passed its death
\* check: energy after metabolism, hp after starvation damage
EnergyAtDispatch == last.agents[last.actor].energy - METABOLISM_RATE

HpAtDispatch ==
    IF EnergyAtDispatch * 10 < MaxEnergy(last.agents[last.actor]) * 2
    THEN last.agents[last.actor].hp - (2 * HScale) \div 10
    ELSE last.agents[last.actor].hp

\* the resources the actor of the last update call could eat: of a type in
\* its diet and within distance 15 of where it stood
EdibleNearby ==
    {x \in 1..Len(last.resources) :
        /\ last.resources[x].resource_type
              \in SPECIES_CONFIG[last.agents[last.actor].species].diet
        /\ DistLE(last.agents[last.actor].position,
                  last.resources[x].position, 15 * PScale)}

\* C9: a foraging dispatch of an agent with an edible resource within
\* distance 15 raises its energy to min(max_energy, energy + amount) for the
\* nearest such resource, adds exactly 1 to its meals counter and removes
\* exactly that resource; with no edible resource within 15 the dispatch
\* leaves energy, hp, meals and the resources as they were; and a removed
\* resource is in no later state of the environment, so no later
\* get_resources_in_range query returns it
C9_ForagingMeal ==
    /\ \A x \in 1..Len(resources) : resources[x].rid \notin removed
    /\ (last.op = "update"
          /\ last.log.strategy \in {"WideView", "FastMove", "RandomWalk", "Ambush"})
       => LET before == last.agents[last.actor]
              after == agents[last.actor]
          IN IF EdibleNearby # {}
             THEN \E x \in EdibleNearby :
                    /\ \A y \in EdibleNearby :
                          distance2(before.position, last.resources[x].position)
                            <= distance2(before.position, last.resources[y].position)
                    /\ after.energy =
                          Min2(MaxEnergy(before),
                               EnergyAtDispatch + last.resources[x].amount * EScale)
                    /\ after.stats.meals = before.stats.meals + 1
                    /\ Len(resources) = Len(last.resources) - 1
                    /\ resources =
                          SubSeq(last.resources, 1, x - 1)
                            \o SubSeq(last.resources, x + 1, Len(last.resources))
                    /\ last.resources[x].rid \in removed
                    /\ get_resources_in_range(resources, last.resources[x].position, 0)
                          = <<>>
             ELSE /\ after.energy = EnergyAtDispatch
                  /\ after.hp = HpAtDispatch
                  /\ after.stats.meals = before.stats.meals
                  /\ resources = last.resources

\* a foraging agent has eaten the nearer of two edible resources within
\* distance 15, an inedible one being nearer still
C9_Witness ==
    /\ last.op = "update"
    /\ last.log.strategy \in {"WideView", "FastMove", "RandomWalk", "Ambush"}
    /\ Cardinality(EdibleNearby) > 1
    /\ \E x \in 1..Len(last.resources) :
          /\ x \notin EdibleNearby
          /\ \A y \in EdibleNearby :
                distance2(last.agents[last.actor].position, last.resources[x].position)
                  < distance2(last.agents[last.actor].position, last.resources[y].position)
    /\ agents[last.actor].stats.meals = 1
    /\ Len(resources) < Len(last.resources)

\* the live agents of another species within 100 units of the actor of the
\* last update call
EnemiesInReach ==
    {k \in 1..Len(last.agents) :
        /\ last.agents[k].state # "dead"
        /\ last.agents[k].species # last.agents[last.actor].species
        /\ DistLT(last.agents[last.actor].position, last.agents[k].position,
                  100 * PScale)}

\* C10: an Aggressive dispatch picks the lowest-hp live agent of another
\* species within 100 units; when that target is within 20 units the target
\* loses exactly 1.5 x the attacker's attack_power in hp, is set to
\* 'fleeing', records the attacker's position as threat position and the
\* attacker as last_attacker, and the attacker loses 0.5 x the target's
\* attack_power in hp and 2.0 energy and counts one more attack; when the
\* target is farther than 20 units no vital of either agent changes
C10_AggressiveDispatch ==
    (last.op = "update" /\ last.log.strategy = "Aggressive" /\ EnemiesInReach # {})
    => LET i == last.actor
           attacker == last.agents[i]
       IN \E t \in EnemiesInReach :
            LET target == last.agents[t]
            IN /\ \A k \in EnemiesInReach : target.hp <= last.agents[k].hp
               /\ IF DistLE(attacker.position, target.position, 20 * PScale)
                  THEN /\ agents[t].hp * 10 = target.hp * 10
                            - 15 * SPECIES_CONFIG[attacker.species].attack_power * HScale
                       /\ agents[t].state = "fleeing"
                       /\ agents[t].threat_position = attacker.position
                       /\ agents[t].last_attacker = i
                       /\ agents[t].energy = target.energy
                       /\ agents[i].hp * 10 = HpAtDispatch * 10
                            - 5 * SPECIES_CONFIG[target.species].attack_power * HScale
                       /\ agents[i].energy = EnergyAtDispatch - 2 * EScale
                       /\ agents[i].stats.attacks = attacker.stats.attacks + 1
                  ELSE /\ agents[t].hp = target.hp
                       /\ agents[t].energy = target.energy
                       /\ agents[t].state = target.state
                       /\ agents[i].hp = HpAtDispatch
                       /\ agents[i].energy = EnergyAtDispatch
                       /\ agents[i].stats.attacks = attacker.stats.attacks

\* an Aggressive attacker has hit the weakest enemy in reach, which was not
\* the nearest one
C10_Witness ==
    /\ last.op = "update"
    /\ last.log.strategy = "Aggressive"
    /\ last.log.hit \in EnemiesInReach
    /\ \E k \in EnemiesInReach :
          /\ last.agents[last.log.hit].hp < last.agents[k].hp
          /\ distance2(last.agents[last.actor].position, last.agents[k].position)
               < distance2(last.agents[last.actor].position,
                           last.agents[last.log.hit].position)
    /\ agents[last.log.hit].state = "fleeing"
    /\ agents[last.actor].stats.attacks = 1

\* an Aggressive attacker has approached a target farther than 20 units away
C10_ApproachSeen ==
    /\ last.op = "update"
    /\ last.log.strategy = "Aggressive"
    /\ last.log.hit = 0
    /\ EnemiesInReach # {}
    /\ agents[last.actor].velocity # <<0, 0>>

\* the actor of the last update call as it stood at its death check: after
\* metabolism and starvation damage
ActorAtDispatch ==
    [last.agents[last.actor] EXCEPT !.energy = EnergyAtDispatch,
                                    !.hp = HpAtDispatch]

\* the live agents of another species strictly within the actor's view range
\* when the last update call was made
EnemiesInView ==
    {k \in 1..Len(last.agents) :
        /\ last.agents[k].state # "dead"
        /\ last.agents[k].species # last.agents[last.actor].species
        /\ DistLT(last.agents[last.actor].position, last.agents[k].position,
                  SPECIES_CONFIG[last.agents[last.actor].species].view_range * PScale)}

\* k is the nearest of the enemies in view; of several at the same distance,
\* the first in the agent list
NearestInView(k) ==
    /\ k \in EnemiesInView
    /\ \A j \in EnemiesInView :
          LET dk == distance2(last.agents[last.actor].position, last.agents[k].position)
              dj == distance2(last.agents[last.actor].position, last.agents[j].position)
          IN dk < dj \/ (dk = dj /\ k <= j)

\* own fitness > 1.2 x the fitness of agent k, fitness = hp/max_hp +
\* energy/max_energy
OutmatchesEnemy(k) ==
    LET mine == calculate_fitness(ActorAtDispatch)
        theirs == calculate_fitness(last.agents[k])
    IN FracLT(6 * theirs.n, 5 * theirs.d, mine.n, mine.d)

\* the fight-readiness of the actor of the last update call
FightReady ==
    /\ EnergyAtDispatch * 10 >= MaxEnergy(last.agents[last.actor]) * 4
    /\ \E k \in EnemiesInView : NearestInView(k) /\ OutmatchesEnemy(k)

\* the actor of the last update call survived its death check with hp at or
\* above 30% of the maximum, so that should_fight was evaluated
FightEvaluated ==
    /\ last.op = "update"
    /\ agents[last.actor].state # "dead"
    /\ HpAtDispatch * 10 >= MaxHp(last.agents[last.actor]) * 3

\* C11: should_fight is true exactly when the agent's energy is at least 40%
\* of the maximum, some live agent of another species is within view range,
\* and the agent's fitness strictly exceeds 1.2 x the fitness of the nearest
\* such enemy: the update that evaluates it leaves the agent 'fighting' in
\* exactly that case, whatever weaker enemies are also in range
C11_FightReadiness ==
    FightEvaluated => (agents[last.actor].state = "fighting" <=> FightReady)

\* should_fight was false for an agent with enough energy whose nearest enemy
\* was too fit, although a weaker enemy it outmatches was also in view
C11_Witness ==
    /\ FightEvaluated
    /\ agents[last.actor].state # "fighting"
    /\ EnergyAtDispatch * 10 >= MaxEnergy(last.agents[last.actor]) * 4
    /\ \E k \in EnemiesInView : NearestInView(k) /\ ~OutmatchesEnemy(k)
    /\ \E k \in EnemiesInView : OutmatchesEnemy(k)

\* should_fight was true: the agent has turned to fighting
C11_FightSeen == FightEvaluated /\ FightReady

\* the actor of the last update call survived its death check
Survived == last.op = "update" /\ agents[last.actor].state # "dead"

\* hp/max_hp < 0.30 at the actor's death check
LowHp == HpAtDispatch * 10 < MaxHp(last.agents[last.actor]) * 3

\* energy/max_energy < hunger_threshold at the actor's death check
Hungry ==
    FracLT(EnergyAtDispatch, MaxEnergy(last.agents[last.actor]),
           last.agents[last.actor].hunger_threshold.n,
           last.agents[last.actor].hunger_threshold.d)

\* C12: an update that the agent survives leaves it 'fleeing' if
\* hp/max_hp < 0.30, else 'fighting' if it is fight-ready, else 'foraging' if
\* energy/max_energy < hunger_threshold, else 'idle', whatever its state was
\* before the update
C12_StatePriority ==
    Survived =>
        agents[last.actor].state =
            IF LowHp THEN "fleeing"
            ELSE IF FightReady THEN "fighting"
            ELSE IF Hungry THEN "foraging"
            ELSE "idle"

\* an agent low on hp has fled although it was fight-ready and hungry
C12_Witness ==
    /\ Survived
    /\ LowHp /\ FightReady /\ Hungry
    /\ agents[last.actor].state = "fleeing"

\* an agent that an attacker had set to 'fleeing' was not low on hp at its
\* next update and left the flight
C12_ForcedFlightLeft ==
    /\ Survived
    /\ last.agents[last.actor].state = "fleeing"
    /\ last.agents[last.actor].last_attacker # 0
    /\ ~LowHp
    /\ agents[last.actor].state \in {"fighting", "foraging", "idle"}

\* the age of the actor of the last update call at its death check
AgeAtDispatch == last.agents[last.actor].age + AGE_INCREMENT

\* hp <= 0 or energy <= 0 or age >= max_age at the actor's death check
DeathDue ==
    \/ HpAtDispatch <= 0
    \/ EnergyAtDispatch <= 0
    \/ AgeAtDispatch >= SPECIES_CONFIG[last.agents[last.actor].species].max_age * AScale

\* C13: an update leaves the agent 'dead' if and only if, after metabolism,
\* hp <= 0 or energy <= 0 or age >= max_age; the cause is HP depleted if
\* hp <= 0, else Energy depleted if energy <= 0, else Old age; and the update
\* in which the agent dies evaluates no state, dispatches no strategy and
\* integrates no movement: but for age, energy, hp, the reproduction timer
\* and the state 'dead', the agent, every other agent and the resources are
\* as they were
C13_DeathCheck ==
    last.op = "update" =>
        /\ agents[last.actor].state = "dead" <=> DeathDue
        /\ ~DeathDue => last.log.cause = ""
        /\ DeathDue =>
              /\ last.log.cause =
                    IF HpAtDispatch <= 0 THEN "HP depleted"
                    ELSE IF EnergyAtDispatch <= 0 THEN "Energy depleted"
                    ELSE "Old age"
              /\ last.log.strategy = ""
              /\ last.log.hit = 0 /\ last.log.ate = 0
              /\ agents =
                    [last.agents EXCEPT ![last.actor] =
                        [@ EXCEPT !.state = "dead",
                                  !.age = AgeAtDispatch,
                                  !.energy = EnergyAtDispatch,
                                  !.hp = HpAtDispatch,
                                  !.time_since_last_reproduction = @ + AGE_INCREMENT]]
              /\ resources = last.resources

\* an agent that was moving has died of its hp and stands where it stood,
\* with the velocity it had
C13_Witness ==
    /\ last.op = "update"
    /\ agents[last.actor].state = "dead"
    /\ last.log.cause = "HP depleted"
    /\ last.agents[last.actor].velocity # <<0, 0>>
    /\ agents[last.actor].velocity = last.agents[last.actor].velocity
    /\ agents[last.actor].position = last.agents[last.actor].position

\* an agent has died of its energy with hp left
C13_EnergyDeathSeen ==
    /\ last.op = "update"
    /\ last.log.cause = "Energy depleted"
    /\ agents[last.actor].hp > 0

\* an agent has died of old age with hp and energy left
C13_OldAgeSeen ==
    /\ last.op = "update"
    /\ last.log.cause = "Old age"
    /\ agents[last.actor].hp > 0 /\ agents[last.actor].energy > 0

\* an agent has died with neither hp nor energy left: the cause is its hp
C13_BothDepletedSeen ==
    /\ last.op = "update"
    /\ HpAtDispatch <= 0 /\ EnergyAtDispatch <= 0
    /\ last.log.cause = "HP depleted"

\* the conditions of can_reproduce, for an agent a: not dead, age strictly
\* inside (MIN_REPRODUCTION_AGE, MIN_REPRODUCTION_AGE + 10), energy and hp
\* above 40% of their maxima, reproduction timer above the species cooldown
Eligible(a) ==
    /\ a.state # "dead"
    /\ MIN_REPRODUCTION_AGE * AScale < a.age
    /\ a.age < (MIN_REPRODUCTION_AGE + 10) * AScale
    /\ 10 * a.energy > 4 * SPECIES_CONFIG[a.species].max_energy * EScale
    /\ 10 * a.hp > 4 * SPECIES_CONFIG[a.species].max_hp * HScale
    /\ a.time_since_last_reproduction
          > SPECIES_CONFIG[a.species].reproduction_cooldown * AScale

\* C15: every birth of a reproduction sweep has two distinct parents, both
\* not dead, of one species, at a distance below MATING_RANGE, and both
\* satisfying can_reproduce when they are paired
C15_ParentsEligible ==
    last.op = "reproduce" =>
        LET a == last.agents[last.actor]
            m == last.agents[last.target]
        IN /\ last.actor # last.target
           /\ a.id # m.id
           /\ a.state # "dead" /\ m.state # "dead"
           /\ a.species = m.species
           /\ distance2(a.position, m.position)
                 < (MATING_RANGE * PScale) * (MATING_RANGE * PScale)
           /\ Eligible(a) /\ Eligible(m)
           /\ Len(new_agents) = Len(last.new_agents) + 1

\* a birth has happened although a live agent of the parents' species stood
\* within mating range of the searching parent with energy of exactly 40% of
\* its maximum: it was passed over
C15_Witness ==
    /\ last.op = "reproduce"
    /\ \E k \in 1..Len(last.agents) :
          /\ k # last.actor /\ k # last.target
          /\ last.agents[k].state # "dead"
          /\ last.agents[k].species = last.agents[last.actor].species
          /\ DistLT(last.agents[last.actor].position, last.agents[k].position,
                    MATING_RANGE * PScale)
          /\ 10 * last.agents[k].energy = 4 * MaxEnergy(last.agents[k])
          /\ ~Eligible(last.agents[k])

\* C14: within one reproduction sweep every agent is a parent at most once:
\* an iteration of the sweep either pairs nobody, or pairs exactly two agents,
\* neither of which was paired earlier in the sweep, adds exactly one
\* newborn, and counts one more offspring for exactly these two; and at
\* every point of the sweep the newborns are as many as the pairs formed
C14_NoDoubleMating ==
    /\ [](pc \in {"reproduce", "end"} => 2 * Len(new_agents) = Cardinality(mated))
    /\ [][pc = "reproduce" =>
            LET paired == mated' \ mated
            IN /\ mated \subseteq mated'
               /\ Len(agents') = Len(agents)
               /\ \A k \in 1..Len(agents) :
                     agents'[k].total_offspring =
                         IF agents[k].id \in paired
                         THEN agents[k].total_offspring + 1
                         ELSE agents[k].total_offspring
               /\ \/ paired = {} /\ new_agents' = new_agents
                  \/ /\ Cardinality(paired) = 2
                     /\ paired \subseteq {agents[k].id : k \in 1..Len(agents)}
                     /\ Len(new_agents') = Len(new_agents) + 1]_vars

\* after a pair was formed in the sweep, an unpaired agent that could
\* reproduce searched and found no mate, although a paired agent of its
\* species stood within mating range
C14_Witness ==
    /\ last.op = "no_mate"
    /\ Len(new_agents) = 1
    /\ Eligible(last.agents[last.actor])
    /\ last.agents[last.actor].id \notin mated
    /\ \E k \in 1..Len(agents) :
          /\ agents[k].id \in mated
          /\ agents[k].species = agents[last.actor].species
          /\ DistLT(agents[last.actor].position, agents[k].position,
                    MATING_RANGE * PScale)

\* the resource eaten by the last update call, as it was before the call
Eaten ==
    last.resources[CHOOSE x \in 1..Len(last.resources) :
                       last.resources[x].rid = last.log.ate]

\* C18: remove_resource is idempotent: removing a resource of the
\* environment takes exactly that resource away, and removing it again, or
\* removing a resource that an agent has eaten, leaves the collection as it
\* is
C18_RemoveIdempotent ==
    /\ \A x \in 1..Len(last.resources) :
          LET r == last.resources[x]
              once == remove_resource(last.resources, r)
          IN /\ Len(once) = Len(last.resources) - 1
             /\ \A y \in 1..Len(once) : once[y].rid # r.rid
             /\ \A y \in 1..Len(last.resources) :
                   y # x => \E z \in 1..Len(once) : once[z] = last.resources[y]
             /\ remove_resource(once, r) = once
    /\ (last.op = "update" /\ last.log.ate # 0) =>
          /\ resources = remove_resource(last.resources, Eaten)
          /\ remove_resource(resources, Eaten) = resources

\* a resource was eaten and so removed while another resource of its type
\* and amount is still in the environment
C18_Witness ==
    /\ last.op = "update"
    /\ last.log.ate # 0
    /\ \A y \in 1..Len(resources) : resources[y].rid # last.log.ate
    /\ \E y \in 1..Len(resources) :
          /\ resources[y].resource_type = Eaten.resource_type
          /\ resources[y].amount = Eaten.amount

\* C20: in every reachable state every agent's hunger threshold lies in
\* [0.2, 0.8]: as constructed, after every learn_from blend, and for a
\* newborn after inheritance, mutation and clamping
C20_HungerThreshold ==
    \A k \in 1..Len(Everyone) :
        LET h == Everyone[k].hunger_threshold
        IN /\ h.d > 0
           /\ 5 * h.n >= h.d
           /\ 5 * h.n <= 4 * h.d

\* a newborn's hunger threshold was clamped to 0.8: its parents, one of which
\* had learned, averaged more than 0.7 and the mutation took the sum past 0.8
C20_Witness ==
    /\ last.op = "reproduce"
    /\ new_agents[Len(new_agents)].hunger_threshold = [n |-> 4, d |-> 5]
    /\ \E k \in {last.actor, last.target} :
          last.agents[k].stats.communications > 0
    /\ LET h1 == last.agents[last.actor].hunger_threshold
           h2 == last.agents[last.target].hunger_threshold
       IN /\ FracLT(h1.n, h1.d, 4, 5) \/ FracLT(h2.n, h2.d, 4, 5)
          /\ FracLT(7, 10, h1.n, h1.d) /\ FracLT(7, 10, h2.n, h2.d)

\* in the tick of the hit h, or in the tick after it, the turn of the agent
\* that was hit is over: the agent loop has passed it
TurnOver(h, t) ==
    \/ ticks > t
    \/ /\ ticks = t
       /\ \/ pc \in {"learn", "reproduce", "end"}
          \/ pc = "agents" /\ idx > h.on

\* C17: a hit that leaves its target B with hp <= 0 is seen by B's own death
\* check.  If the attacker A precedes B in the agent list, B is dead once
\* its turn of the same tick is over; if B precedes A, B has had its turn in
\* that tick, is not dead for the rest of it, and is dead once its turn of
\* the next tick is over.  The update that finds B with hp <= 0 dispatches
\* no strategy and moves nothing
C17_WithinTickOrder ==
    /\ \A h \in hist.lethal :
          IF h.by < h.on
          THEN /\ TurnOver(h, h.tick) => agents[h.on].state = "dead"
               /\ ~TurnOver(h, h.tick) => agents[h.on].state # "dead"
          ELSE /\ h.on < h.by
               /\ ticks = h.tick =>
                     /\ hist.last_turn[h.on] = h.tick
                     /\ agents[h.on].state # "dead"
               /\ TurnOver(h, h.tick + 1) => agents[h.on].state = "dead"
               /\ ~TurnOver(h, h.tick + 1) => agents[h.on].state # "dead"
    /\ (last.op = "update" /\ last.agents[last.actor].hp <= 0) =>
          /\ agents[last.actor].state = "dead"
          /\ last.log.strategy = ""
          /\ agents[last.actor].position = last.agents[last.actor].position
          /\ agents[last.actor].velocity = last.agents[last.actor].velocity

\* an attacker earlier in the list took its target's hp to zero or below,
\* and the target's update in the same tick has just found it dead
C17_Witness ==
    /\ last.op = "update"
    /\ agents[last.actor].state = "dead"
    /\ \E h \in hist.lethal :
          h.on = last.actor /\ h.by < h.on /\ h.tick = ticks

\* an attacker later in the list took its target's hp to zero or below; the
\* target lived on to the end of that tick and its update in the next tick
\* has just found it dead
C17_LateDeathSeen ==
    /\ last.op = "update"
    /\ agents[last.actor].state = "dead"
    /\ \E h \in hist.lethal :
          h.on = last.actor /\ h.on < h.by /\ h.tick + 1 = ticks

\* C16 as stated: the escapes counter grows by exactly one for each flee
\* episode (each maximal run of ticks that end with the agent 'fleeing'):
\* an episode that has ended added exactly 1 to the counter, an episode in
\* progress has added at most 1, and no tick outside an episode added
\* anything
C16_EscapePerEpisode ==
    \A k \in 1..Len(hist.flee_gain) :
        /\ hist.flee_gain[k] \in {-1, 1}
        /\ hist.stray_gain[k] = 0
        /\ (k <= Len(agents) /\ hist.flee_base[k] # -1) =>
              agents[k].stats.escapes - hist.flee_base[k] \in {0, 1}

\* a flee episode that began with an attacker's hit has ended at the agent's
\* next update without any escape counted
C16_ForcedEpisodeUncounted ==
    /\ EndOfTick
    /\ \E k \in 1..Len(hist.flee_gain) :
          /\ hist.flee_gain[k] = 0
          /\ agents[k].state \in {"idle", "foraging", "fighting"}
          /\ agents[k].last_attacker # 0

\* a flee episode of an agent low on hp has ended with its death without any
\* escape counted
C16_LowHpEpisodeUncounted ==
    /\ EndOfTick
    /\ \E k \in 1..Len(hist.flee_gain) :
          /\ hist.flee_gain[k] = 0
          /\ agents[k].state = "dead"

\* a flee episode has ended with exactly one escape counted
C16_CountedEpisodeSeen ==
    /\ EndOfTick
    /\ \E k \in 1..Len(hist.flee_gain) : hist.flee_gain[k] = 1

\* C19 as stated: no agent of the population has a species that the species
\* configuration lacks or a species whose diet set is empty, a malformed
\* configuration being rejected when the agent is constructed
C19_MalformedRejected ==
    \A k \in 1..Len(agents) :
        /\ agents[k].species \in DOMAIN species_config
        /\ species_config[agents[k].species].diet # {}

\* the construction of an agent of a species that the configuration lacks
\* has raised, after agents of the other species were built
C19_UnknownSpeciesRejected ==
    /\ pc = "crashed"
    /\ last.op = "Agent"
    /\ Len(agents) > 0
    /\ \A k \in 1..Len(agents) : agents[k].species \in DOMAIN species_config

\* the simulation starts with an agent whose species eats nothing
C19_EmptyDietAccepted ==
    /\ pc = "running"
    /\ \E k \in 1..Len(agents) : species_config[agents[k].species].diet = {}

AtDeathCheck ==
    LET before == last.agents[last.actor]
    IN [before EXCEPT
          !.energy = @ - METABOLISM_RATE,
          !.hp = IF (before.energy - METABOLISM_RATE) * 10
                       < MaxEnergy(before) * 2
                 THEN @ - (2 * HScale) \div 10 ELSE @]

C21_FullFitnessSeen ==
    \E k \in 1..Len(Everyone) :
        /\ Everyone[k].state # "dead"
        /\ calculate_fitness(Everyone[k]).n = 2 * calculate_fitness(Everyone[k]).d

\* the agents as the strategy of the last update call found them
AtDispatch == [agents |-> last.agents]

\* the live agents of the actor's species, other than the actor, within 150
\* units of it when its strategy was dispatched
OtherAllies ==
    SelectSeq(allies_within(AtDispatch, last.actor, 150 * PScale),
              LAMBDA k : k # last.actor)

\* the agents other than the actor whose energy the last update call reduced
Charged ==
    {k \in 1..Len(last.agents) :
        k # last.actor /\ agents[k].energy < last.agents[k].energy}

\* C22 as stated: a Group dispatch changes nothing (no movement, no damage,
\* no energy cost) unless at least 2 live allies other than the actor are
\* within 150 units and a live enemy is within 100 units; when it hits, the
\* damage is attack_power x (1 + 0.3 x min(number of such allies, 5)), at
\* most two allies are charged 0.5 energy each and the actor is not
C22_GroupStrategy ==
    (last.op = "update" /\ last.log.strategy = "Group") =>
        LET i == last.actor
            before == last.agents[i]
            t == last.log.hit
        IN /\ (Len(OtherAllies) < 2
                 \/ enemies_within(AtDispatch, i, 100 * PScale) = <<>>) =>
                 /\ t = 0
                 /\ \A k \in 1..Len(last.agents) :
                       k # i => agents[k] = last.agents[k]
                 /\ agents[i].energy = before.energy - METABOLISM_RATE
                 /\ agents[i].stats = before.stats
                 /\ agents[i].position = apply_movement(before).position
                 /\ agents[i].velocity = apply_movement(before).velocity
           /\ t # 0 =>
                 /\ last.agents[t].hp - agents[t].hp =
                      (Config(before).attack_power
                          * (10 + 3 * Min2(Len(OtherAllies), 5)) * HScale) \div 10
                 /\ Cardinality(Charged) <= 2
                 /\ \A k \in Charged :
                       /\ last.agents[k].species = before.species
                       /\ last.agents[k].energy - agents[k].energy = EScale \div 2
                 /\ agents[i].energy =
                      before.energy - METABOLISM_RATE - (15 * EScale) \div 10

\* a Group dispatch has hit with a single ally other than the actor in range
C22_LoneAllyHitSeen ==
    /\ last.op = "update"
    /\ last.log.strategy = "Group"
    /\ last.log.hit # 0
    /\ Len(OtherAllies) = 1

\* the last update call dispatched the Defensive strategy
DefensiveDispatched == last.op = "update" /\ last.log.strategy = "Defensive"

\* the last update call left every agent but the actor as it was
OthersUntouched ==
    \A k \in 1..Len(last.agents) :
        k # last.actor => agents[k] = last.agents[k]

\* C23: a Defensive dispatch with no last_attacker changes nothing; with a
\* dead last_attacker it only clears the reference and damages no one; a
\* counter-hit lands only on the recorded last_attacker, which is not dead,
\* takes 0.8 x attack_power + defense from its hp and clears the reference,
\* so that the next Defensive dispatch hits no one unless the agent has been
\* attacked again
C23_DefensiveCounter ==
    DefensiveDispatched =>
        LET i == last.actor
            before == last.agents[i]
            la == before.last_attacker
            t == last.log.hit
            unhurt == /\ t = 0
                      /\ OthersUntouched
                      /\ agents[i].hp = AtDeathCheck.hp
                      /\ agents[i].energy = AtDeathCheck.energy
                      /\ agents[i].stats = before.stats
        IN /\ la = 0 =>
                 /\ unhurt
                 /\ agents[i].last_attacker = 0
                 /\ agents[i].position = apply_movement(before).position
                 /\ agents[i].velocity = apply_movement(before).velocity
           /\ (la # 0 /\ last.agents[la].state = "dead") =>
                 /\ unhurt
                 /\ agents[i].last_attacker = 0
                 /\ agents[i].position = apply_movement(before).position
                 /\ agents[i].velocity = apply_movement(before).velocity
           /\ t # 0 =>
                 /\ t = la
                 /\ last.agents[t].state # "dead"
                 /\ last.agents[t].hp - agents[t].hp =
                      (Config(before).attack_power * 8 * HScale) \div 10
                          + Config(before).defense * HScale
                 /\ agents[i].stats.attacks = before.stats.attacks + 1
                 /\ agents[i].last_attacker = 0
           /\ (la # 0 /\ t = 0 /\ last.agents[la].state # "dead") =>
                 /\ OthersUntouched
                 /\ agents[i].last_attacker = la

\* a Defensive dispatch found its last attacker dead and cleared the
\* reference
C23_Witness ==
    /\ DefensiveDispatched
    /\ last.agents[last.actor].last_attacker # 0
    /\ last.agents[last.agents[last.actor].last_attacker].state = "dead"
    /\ agents[last.actor].last_attacker = 0

\* a Defensive counter-hit has landed
C23_CounterHitSeen ==
    /\ DefensiveDispatched
    /\ last.log.hit # 0
    /\ agents[last.actor].last_attacker = 0

\* a Defensive dispatch had no last attacker
C23_NoAttackerSeen ==
    /\ DefensiveDispatched
    /\ last.agents[last.actor].last_attacker = 0

\* a Defensive dispatch approached its last attacker
C23_ApproachSeen ==
    /\ DefensiveDispatched
    /\ last.agents[last.actor].last_attacker # 0
    /\ last.log.hit = 0
    /\ agents[last.actor].last_attacker # 0

\* agent j is strictly fitter than agent i among the agents ags
Fitter(ags, j, i) ==
    LET fi == calculate_fitness(ags[i])
        fj == calculate_fitness(ags[j])
    IN FracLT(fi.n, fi.d, fj.n, fj.d)

\* agents i and j are two live agents within INTERACTION_RADIUS of each
\* other
InRange(ags, i, j) ==
    /\ i # j
    /\ ags[i].state # "dead"
    /\ ags[j].state # "dead"
    /\ DistLE(ags[i].position, ags[j].position, INTERACTION_RADIUS * PScale)

\* the agents that agent i had to learn from in a sweep that found the
\* agents as ags: the other live agents within INTERACTION_RADIUS of it that
\* are strictly fitter than it
Teachers(ags, i) ==
    {j \in 1..Len(ags) : InRange(ags, i, j) /\ Fitter(ags, j, i)}

\* the learning sweep of this iteration has just finished
SweepDone ==
    /\ pc # "learn"
    /\ last.op \in {"learn_from", "not_nearby"}

\* C24: when a learning sweep has finished, every agent has taken as many
\* learning steps as it has strictly fitter live agents within
\* INTERACTION_RADIUS, one from each (so of a pair of unequal fitness only
\* the less fit agent learned, and of a pair of equal fitness neither); dead
\* agents are as they were; no agent's hp, energy, position, velocity or
\* state has changed
C24_LearningSweep ==
    /\ SweepDone =>
         /\ Len(hist.sweep) = Len(agents)
         /\ \A i \in 1..Len(agents) :
              /\ agents[i].stats.communications
                    - hist.sweep[i].stats.communications
                   = Cardinality(Teachers(hist.sweep, i))
              /\ hist.sweep[i].state = "dead" => agents[i] = hist.sweep[i]
              /\ agents[i].hp = hist.sweep[i].hp
              /\ agents[i].energy = hist.sweep[i].energy
              /\ agents[i].position = hist.sweep[i].position
              /\ agents[i].velocity = hist.sweep[i].velocity
              /\ agents[i].state = hist.sweep[i].state
    /\ last.op = "learn_from" =>
         /\ last.target \in Teachers(hist.sweep, last.actor)
              <=> agents[last.actor] # last.agents[last.actor]
         /\ last.target \in Teachers(hist.sweep, last.actor) =>
              agents[last.actor] =
                 learn_from(last.agents[last.actor], last.agents[last.target])
         /\ \A k \in 1..Len(agents) :
              k # last.actor => agents[k] = last.agents[k]
    /\ last.op = "not_nearby" => agents = last.agents

\* a sweep has finished in which an agent learned from a fitter neighbour,
\* a pair of neighbours of equal fitness did not learn from each other, and
\* an agent out of range of the others taught no one although it was fitter
\* than one of them
C24_Witness ==
    /\ SweepDone
    /\ \E i \in 1..Len(agents) :
          /\ Teachers(hist.sweep, i) # {}
          /\ agents[i].stats.communications
                > hist.sweep[i].stats.communications
    /\ \E i, j \in 1..Len(agents) :
          /\ InRange(hist.sweep, i, j)
          /\ ~Fitter(hist.sweep, i, j)
          /\ ~Fitter(hist.sweep, j, i)
    /\ \E i \in 1..Len(agents) :
          /\ hist.sweep[i].state # "dead"
          /\ \A j \in 1..Len(agents) : ~InRange(hist.sweep, i, j)
          /\ \E j \in 1..Len(agents) :
                hist.sweep[j].state # "dead" /\ Fitter(hist.sweep, i, j)

\* a sweep has finished in which an agent learned from two fitter neighbours
C24_TwoTeachersSeen ==
    /\ SweepDone
    /\ \E i \in 1..Len(agents) : Cardinality(Teachers(hist.sweep, i)) = 2

\* a sweep has finished that passed over a dead agent beside a live one
C24_DeadPassedOver ==
    /\ SweepDone
    /\ \E i, j \in 1..Len(agents) :
          /\ hist.sweep[i].state = "dead"
          /\ hist.sweep[j].state # "dead"
          /\ DistLE(hist.sweep[i].position, hist.sweep[j].position,
                    INTERACTION_RADIUS * PScale)

\* the sweeps of the iteration are under way or over
AgentsUpdated == pc \in {"learn", "reproduce", "end"}

\* C25: the learning sweep runs exactly in the iterations whose frame counter
\* is a multiple of 30 and the reproduction sweep exactly in those whose
\* frame counter is a multiple of 60, both after every live agent was updated
\* in the iteration, learning first; the newborns wait in new_agents,
\* untouched and unmated, and join the agents only when the iteration ends,
\* so no newborn is updated, taught or mated in the iteration of its birth
C25_SweepPhases ==
    /\ [](/\ pc = "learn" => frame_count % 30 = 0
          /\ pc = "reproduce" => frame_count % 60 = 0
          /\ AgentsUpdated =>
               \A k \in 1..Len(agents) :
                   agents[k].state # "dead" => hist.last_turn[k] = ticks
          /\ pc = "learn" => new_agents = <<>> /\ mated = {}
          /\ pc = "reproduce" => hist.sweep # <<>>
          /\ pc = "end" =>
               /\ frame_count % 30 = 0 <=> hist.sweep # <<>>
               /\ frame_count % 60 = 0 <=> last.op \in {"reproduce", "no_mate"}
               /\ frame_count % 60 # 0 => new_agents = <<>>
          /\ pc \in {"env", "agents"} => new_agents = <<>> /\ hist.sweep = <<>>
          /\ \A k \in 1..Len(new_agents) :
               /\ new_agents[k].id \notin mated
               /\ new_agents[k].age = 0
               /\ new_agents[k].stats.communications = 0)
    /\ [][/\ pc = "reproduce" => pc' \in {"reproduce", "end"}
          /\ pc = "learn" => pc' \in {"learn", "reproduce", "end"}
          /\ Len(agents') # Len(agents) =>
               /\ pc = "end" /\ pc' = "env"
               /\ agents' = agents \o new_agents
          /\ pc # "end" =>
               /\ Len(new_agents') >= Len(new_agents)
               /\ \A k \in 1..Len(new_agents) :
                     new_agents'[k] = new_agents[k]]_vars

\* an iteration on a multiple of 60 ends after both sweeps with a newborn
\* that joins the agents as it was born
C25_Witness ==
    /\ EndOfTick
    /\ last.new_agents # <<>>
    /\ (frame_count - 1) % 60 = 0
    /\ SubSeq(agents, Len(last.agents) + 1, Len(agents)) = last.new_agents

\* an iteration on a multiple of 30 that is not one of 60 ends after the
\* learning sweep alone
C25_LearningOnlySeen ==
    /\ pc = "end"
    /\ frame_count % 30 = 0
    /\ frame_count % 60 # 0
    /\ hist.sweep # <<>>
    /\ last.op \in {"learn_from", "not_nearby"}

\* an iteration that is on no multiple of 30 ends without a sweep
C25_NoSweepSeen ==
    /\ pc = "end"
    /\ frame_count % 30 # 0
    /\ last.op \in {"update", "skip"}

\* agent p of the last reproduce call has paid what a parent pays and is
\* otherwise as it was
PaidAsParent(p) ==
    LET before == last.agents[p]
        after == agents[p]
    IN /\ before.energy - after.energy
            = (SPECIES_CONFIG[before.species].max_energy * EScale
                 * REPRODUCTION_ENERGY_COST) \div 100
       /\ before.hp - after.hp
            = (SPECIES_CONFIG[before.species].max_hp * HScale
                 * REPRODUCTION_HP_COST) \div 100
       /\ after.time_since_last_reproduction = 0
       /\ after.total_offspring = before.total_offspring + 1
       /\ after.stats.offspring = before.stats.offspring + 1
       /\ after = [before EXCEPT
                     !.energy = after.energy,
                     !.hp = after.hp,
                     !.time_since_last_reproduction = 0,
                     !.total_offspring = after.total_offspring,
                     !.stats.offspring = after.stats.offspring]

\* C26: a reproduce call takes REPRODUCTION_ENERGY_COST x max_energy of
\* energy and REPRODUCTION_HP_COST x max_hp of hp from each of the two
\* parents, sets the reproduction timer of both to zero and adds 1 to the
\* offspring counters of both; it changes nothing else of the parents and
\* nothing of any other agent, and adds one newborn
C26_ReproductionCost ==
    last.op = "reproduce" =>
        /\ last.actor # last.target
        /\ PaidAsParent(last.actor)
        /\ PaidAsParent(last.target)
        /\ Len(agents) = Len(last.agents)
        /\ \A k \in 1..Len(agents) :
              k \notin {last.actor, last.target} => agents[k] = last.agents[k]
        /\ Len(new_agents) = Len(last.new_agents) + 1
        /\ SubSeq(new_agents, 1, Len(last.new_agents)) = last.new_agents

\* a reproduce call has charged two parents whose hp and energy were below
\* their maxima, beside an agent that was not a parent
C26_Witness ==
    /\ last.op = "reproduce"
    /\ Len(agents) > 2
    /\ \A p \in {last.actor, last.target} :
          /\ last.agents[p].hp < MaxHp(last.agents[p])
          /\ last.agents[p].energy < MaxEnergy(last.agents[p])
          /\ last.agents[p].time_since_last_reproduction > 0
          /\ agents[p].time_since_last_reproduction = 0
          /\ agents[p].hp < last.agents[p].hp

\* the agent a is as Agent.__init__ leaves an agent: full hp and energy, age
\* 0, idle, at rest, its timer and counters at 0, no threat, no attacker
Fresh(a) ==
    /\ a.hp = SPECIES_CONFIG[a.species].max_hp * HScale
    /\ a.energy = SPECIES_CONFIG[a.species].max_energy * EScale
    /\ a.age = 0
    /\ a.state = "idle"
    /\ a.velocity = <<0, 0>>
    /\ a.time_since_last_reproduction = 0
    /\ a.total_offspring = 0
    /\ a.stats = [communications |-> 0, attacks |-> 0, meals |-> 0,
                  escapes |-> 0, offspring |-> 0]
    /\ a.threat_position = None
    /\ a.wander_target = None
    /\ a.last_attacker = 0
    /\ a.escape_counted = FALSE

\* C27: the agent that a reproduce call or a construction of the initial
\* population has just created has hp = max_hp, energy = max_energy, age 0,
\* state 'idle', reproduction timer 0, all counters 0, no threat position
\* and no last attacker, whatever the vitals, ages and counters of its
\* parents; it is of its parents' species, and it stays so until the
\* iteration ends
C27_FreshAgents ==
    /\ last.op = "reproduce" =>
          /\ new_agents # <<>>
          /\ Fresh(new_agents[Len(new_agents)])
          /\ new_agents[Len(new_agents)].species
                = last.agents[last.actor].species
    /\ \A k \in 1..Len(new_agents) : Fresh(new_agents[k])
    /\ (last.op = "Agent" /\ Len(agents) > Len(last.agents)) =>
          Fresh(agents[Len(agents)])

\* an offspring was created by two parents that were neither at full hp nor
\* at full energy, with ages, timers and counters above 0
C27_Witness ==
    /\ last.op = "reproduce"
    /\ Fresh(new_agents[Len(new_agents)])
    /\ \A p \in {last.actor, last.target} :
          /\ last.agents[p].hp < MaxHp(last.agents[p])
          /\ last.agents[p].energy < MaxEnergy(last.agents[p])
          /\ last.agents[p].age > 0
          /\ last.agents[p].time_since_last_reproduction > 0
    /\ \E p \in {last.actor, last.target} :
          last.agents[p].stats.communications > 0

\* the position pos lies in the field [0, MAP_WIDTH] x [0, SCREEN_HEIGHT]
InField(pos) ==
    /\ 0 <= pos[1] /\ pos[1] <= MAP_WIDTH * PScale
    /\ 0 <= pos[2] /\ pos[2] <= SCREEN_HEIGHT * PScale

\* C28: in every reachable state every agent, newborns included, is in the
\* field; an update that its agent survives leaves 0.9 times the velocity it
\* integrated: along an axis on which the agent was not stopped at an edge of
\* the field, 0.9 times the distance it moved, and along an axis on which it
\* did not move and is not at an edge, zero
C28_InFieldAndDecay ==
    /\ \A k \in 1..Len(Everyone) : InField(Everyone[k].position)
    /\ (last.op = "update" /\ agents[last.actor].state # "dead") =>
          LET before == last.agents[last.actor]
              after == agents[last.actor]
              bound == <<MAP_WIDTH * PScale, SCREEN_HEIGHT * PScale>>
          IN \A c \in 1..2 :
                (0 < after.position[c] /\ after.position[c] < bound[c]) =>
                    after.velocity[c] =
                        TDiv((after.position[c] - before.position[c]) * 9, 10)

\* an update has stopped its agent at an edge of the field that its velocity
\* would have taken it across
C28_Witness ==
    /\ last.op = "update"
    /\ agents[last.actor].state # "dead"
    /\ \E c \in 1..2 :
          /\ agents[last.actor].position[c] = 0
          /\ last.agents[last.actor].position[c] > 0
          /\ agents[last.actor].velocity[c] * 10
                < - 9 * last.agents[last.actor].position[c]

\* an offspring was placed at the least distance from the edge that
\* Agent.reproduce allows
C28_OffspringClampedSeen ==
    /\ last.op = "reproduce"
    /\ \E c \in 1..2 : new_agents[Len(new_agents)].position[c] = 20 * PScale

\* the strategy names of a context
Names(context) ==
    {StrategiesOf(context)[n] : n \in 1..Len(StrategiesOf(context))}

\* the three current strategies of the agent a
Currents(a) ==
    [foraging |-> a.current_foraging_strategy,
     combat |-> a.current_combat_strategy,
     flee |-> a.current_flee_strategy]

\* the context that a state dispatches, "" for none
ContextOf(state) ==
    CASE state = "fleeing" -> "flee"
      [] state = "fighting" -> "combat"
      [] state = "foraging" -> "foraging"
      [] OTHER -> ""

\* C29: in every reachable state each agent's current foraging, combat and
\* flee strategy is one of the 4 foraging, 3 combat and 3 flee strategies;
\* an update dispatches the current strategy of its state's context
\* (fleeing: flee, fighting: combat, foraging: foraging; idle or dead: none)
\* and changes no current strategy of the agent outside that context, and
\* no current strategy of any other agent; no other step changes a current
\* strategy
C29_ClosedDispatch ==
    /\ Cardinality(Names("foraging")) = 4
    /\ Cardinality(Names("combat")) = 3
    /\ Cardinality(Names("flee")) = 3
    /\ \A k \in 1..Len(Everyone) :
          \A context \in {"foraging", "combat", "flee"} :
              /\ Currents(Everyone[k])[context] \in Names(context)
              /\ DOMAIN Everyone[k].strategy_probs[context].w
                    = 1..Len(StrategiesOf(context))
    /\ last.op = "update" =>
          LET before == last.agents[last.actor]
              after == agents[last.actor]
              used == ContextOf(after.state)
          IN /\ last.log.strategy =
                   (IF used = "" THEN "" ELSE Currents(after)[used])
             /\ \A context \in {"foraging", "combat", "flee"} :
                   context # used =>
                       Currents(after)[context] = Currents(before)[context]
             /\ \A k \in 1..Len(agents) :
                   k # last.actor =>
                       Currents(agents[k]) = Currents(last.agents[k])
    /\ last.op \in {"learn_from", "not_nearby", "reproduce", "no_mate",
                    "skip", "environment.update"} =>
          \A k \in 1..Len(agents) :
              Currents(agents[k]) = Currents(last.agents[k])
    /\ last.op = "end_tick" =>
          \A k \in 1..Len(last.agents) :
              Currents(agents[k]) = Currents(last.agents[k])

\* an update has re-picked the strategy of its state's context, dispatched
\* the new one and left the other two contexts alone
C29_Witness ==
    /\ last.op = "update"
    /\ ContextOf(agents[last.actor].state) # ""
    /\ LET used == ContextOf(agents[last.actor].state)
       IN /\ Currents(agents[last.actor])[used]
                # Currents(last.agents[last.actor])[used]
          /\ last.log.strategy = Currents(agents[last.actor])[used]

\* a fleeing agent has dispatched a flee strategy other than the first
C29_FleeDispatchSeen ==
    /\ last.op = "update"
    /\ agents[last.actor].state = "fleeing"
    /\ last.log.strategy \in Names("flee") \ {"Speed"}

\* C30: within a run the ids of the population (the agents and the
\* newborns of the current iteration, alive or dead) strictly increase in
\* creation order, so no two agents share an id; every id is below the id
\* counter, and the ids of the mated set belong to agents of the list
C30_UniqueIds ==
    /\ \A k, l \in 1..Len(Everyone) :
          k < l => Everyone[k].id < Everyone[l].id
    /\ \A k \in 1..Len(Everyone) :
          0 <= Everyone[k].id /\ Everyone[k].id < next_id
    /\ mated \subseteq {agents[k].id : k \in 1..Len(agents)}
    /\ last.op = "reproduce" =>
          /\ new_agents[Len(new_agents)].id = next_id - 1
          /\ \A k \in 1..Len(last.agents) :
                last.agents[k].id < new_agents[Len(new_agents)].id

\* a child is born into a population that holds a dead agent created
\* before one of its parents, and its id is the largest
C30_Witness ==
    /\ last.op = "reproduce"
    /\ \E k \in 1..Len(agents) :
          /\ agents[k].state = "dead"
          /\ k < last.actor \/ k < last.target
    /\ \A k \in 1..Len(agents) :
          agents[k].id < new_agents[Len(new_agents)].id

\* the newborn has joined the agents, after the dead agent and its parents,
\* and the population is still in the order of its ids
C30_JoinedSeen ==
    /\ last.op = "end_tick"
    /\ Len(agents) = Len(last.agents) + 1
    /\ \E k \in 1..Len(last.agents) : agents[k].state = "dead"
    /\ agents[Len(agents)].id = Len(agents) - 1

\* the number of resources of a type
CountOf(res, resource_type) ==
    Len(SelectSeq(res, LAMBDA x : x.resource_type = resource_type))

\* C31: the environment never holds more than RESOURCE_MAX_PLANT plants or
\* RESOURCE_MAX_MEAT meats and the spawn timer stays in
\* [0, RESOURCE_SPAWN_INTERVAL); Environment.update advances the timer by
\* one modulo the interval, attempts a spawn exactly when the timer wraps to
\* 0, adds at most one resource (none when that type is at its maximum) and
\* removes none; no other step touches the timer or adds a resource
C31_FiniteResources ==
    /\ [](/\ CountOf(resources, "plant") <= RESOURCE_MAX_PLANT
          /\ CountOf(resources, "meat") <= RESOURCE_MAX_MEAT
          /\ 0 <= spawn_timer /\ spawn_timer < RESOURCE_SPAWN_INTERVAL)
    /\ [][IF pc = "env"
          THEN /\ spawn_timer' = (spawn_timer + 1) % RESOURCE_SPAWN_INTERVAL
               /\ \/ resources' = resources
                  \/ /\ Len(resources') = Len(resources) + 1
                     /\ SubSeq(resources', 1, Len(resources)) = resources
               /\ spawn_timer' # 0 => resources' = resources
               /\ spawn_timer' = 0 /\ resources' = resources =>
                     \/ CountOf(resources, "plant") = RESOURCE_MAX_PLANT
                     \/ CountOf(resources, "meat") = RESOURCE_MAX_MEAT
               /\ resources' # resources =>
                     LET new == resources'[Len(resources')]
                     IN CountOf(resources, new.resource_type) <
                           (IF new.resource_type = "plant"
                            THEN RESOURCE_MAX_PLANT ELSE RESOURCE_MAX_MEAT)
          ELSE /\ spawn_timer' = spawn_timer
               /\ Len(resources') <= Len(resources)]_vars

\* a spawn attempt found the plants at their maximum and added nothing
C31_Witness ==
    /\ last.op = "environment.update"
    /\ spawn_timer = 0
    /\ CountOf(last.resources, "plant") = RESOURCE_MAX_PLANT
    /\ resources = last.resources

\* a spawn attempt brought the meats to their maximum
C31_LastMeatSeen ==
    /\ last.op = "environment.update"
    /\ spawn_timer = 0
    /\ CountOf(last.resources, "meat") = RESOURCE_MAX_MEAT - 1
    /\ CountOf(resources, "meat") = RESOURCE_MAX_MEAT

\* the live agents of another species less than `radius` away from where the
\* actor of the last call stood
LiveEnemies(radius) ==
    {k \in 1..Len(last.agents) :
        /\ last.agents[k].state # "dead"
        /\ last.agents[k].species # last.agents[last.actor].species
        /\ DistLT(last.agents[last.actor].position, last.agents[k].position,
                  radius)}

\* C32: no step changes anything of an agent that is marked dead (vitals,
\* age, position, velocity, distributions, hunger threshold, counters); an
\* update never hits a dead agent, charges one energy, fights because of one
\* or takes one for its threat, also when the agent died earlier in the same
\* tick; a dead agent is neither learner nor teacher, and neither parent
C32_DeadIsInert ==
    /\ [][\A k \in 1..Len(agents) :
             agents[k].state = "dead" => agents'[k] = agents[k]]_vars
    /\ [](last.op = "update" =>
            LET i == last.actor
                before == last.agents[i]
                after == agents[i]
            IN /\ before.state # "dead"
               /\ last.log.hit # 0 => last.agents[last.log.hit].state # "dead"
               /\ \A k \in Charged : last.agents[k].state # "dead"
               /\ after.state = "fighting" =>
                     LiveEnemies(Config(before).view_range * PScale) # {}
               /\ (before.threat_position = None
                      /\ after.threat_position # None) =>
                     \E k \in 1..Len(last.agents) :
                         /\ last.agents[k].state # "dead"
                         /\ last.agents[k].species # before.species
                         /\ last.agents[k].position = after.threat_position)
    /\ [](last.op \in {"learn_from", "reproduce"} =>
            /\ last.agents[last.actor].state # "dead"
            /\ last.agents[last.target].state # "dead")

\* an agent was marked dead by its own update and, later in the same tick,
\* an agent of another species was updated less than 100 units from it and
\* left it as it was
C32_Witness ==
    /\ last.op = "update"
    /\ \E k \in 1..Len(agents) :
          /\ k < last.actor
          /\ hist.last_turn[k] = ticks
          /\ agents[k].state = "dead"
          /\ agents[k] = last.agents[k]
          /\ agents[k].species # agents[last.actor].species
          /\ DistLT(last.agents[last.actor].position, agents[k].position,
                    100 * PScale)

\* a learning sweep passed over a dead agent within reach of a live one
C32_DeadNotTaughtSeen ==
    /\ last.op = "not_nearby"
    /\ last.actor # last.target
    /\ \E k \in {last.actor, last.target} : agents[k].state = "dead"
    /\ DistLE(agents[last.actor].position, agents[last.target].position,
              INTERACTION_RADIUS * PScale)

\* a reproduction sweep passed over a dead agent beside two mature ones
C32_DeadNoParentSeen ==
    /\ last.op = "no_mate"
    /\ agents[last.actor].state = "dead"
    /\ \E k \in 1..Len(agents) :
          /\ agents[k].state # "dead"
          /\ agents[k].species = agents[last.actor].species
          /\ DistLT(agents[k].position, agents[last.actor].position,
                    MATING_RANGE * PScale)

\* the agents other than the actor whose hp the last update call reduced
Hurt ==
    {k \in 1..Len(last.agents) :
        k # last.actor /\ agents[k].hp < last.agents[k].hp}

\* C33: an update never reduces the hp of another agent of the actor's
\* species (the only hp it reduces besides the actor's own is that of the
\* one agent it hit, of another species), and an agent's last_attacker, when
\* set, is an agent of another species
C33_NoFriendlyFire ==
    /\ \A k \in 1..Len(Everyone) :
          Everyone[k].last_attacker # 0 =>
              /\ Everyone[k].last_attacker \in 1..Len(agents)
              /\ agents[Everyone[k].last_attacker].species # Everyone[k].species
    /\ last.op = "update" =>
          /\ Hurt \subseteq {last.log.hit}
          /\ \A k \in Hurt \cup ({last.log.hit} \ {0}) :
                last.agents[k].species # last.agents[last.actor].species
    /\ last.op \in {"learn_from", "not_nearby", "skip", "no_mate", "end_tick",
                    "environment.update"} =>
          \A k \in 1..Len(last.agents) : agents[k].hp = last.agents[k].hp

\* an agent hit an enemy and no one else, although a live agent of its own
\* species stood within 20 units of it
C33_Witness ==
    /\ last.op = "update"
    /\ last.log.hit # 0
    /\ Hurt = {last.log.hit}
    /\ \E k \in 1..Len(last.agents) :
          /\ k # last.actor
          /\ last.agents[k].state # "dead"
          /\ last.agents[k].species = last.agents[last.actor].species
          /\ DistLE(last.agents[last.actor].position, last.agents[k].position,
                    20 * PScale)

\* a Defensive counter hit the agent's last attacker
C33_CounterSeen ==
    /\ last.op = "update"
    /\ last.log.strategy = "Defensive"
    /\ last.log.hit # 0
    /\ last.log.hit = last.agents[last.actor].last_attacker
    /\ Hurt = {last.log.hit}

\* C34: immediately after a birth of a reproduction sweep each of the two
\* parents has energy above 20% of its max_energy and hp above 30% of its
\* max_hp, having had more than 40% of both before and paid once
C34_ParentsSurvive ==
    last.op = "reproduce" =>
        \A p \in {last.actor, last.target} :
            /\ 10 * last.agents[p].energy > 4 * MaxEnergy(last.agents[p])
            /\ 10 * last.agents[p].hp > 4 * MaxHp(last.agents[p])
            /\ agents[p].id \in mated
            /\ 10 * agents[p].energy > 2 * MaxEnergy(agents[p])
            /\ 10 * agents[p].hp > 3 * MaxHp(agents[p])
            /\ agents[p].energy > 0 /\ agents[p].hp > 0

\* a birth has cost a parent that was not at full strength: it is left with
\* less than two thirds of its energy and at most 70% of its hp
C34_Witness ==
    /\ last.op = "reproduce"
    /\ \E p \in {last.actor, last.target} :
          /\ last.agents[p].energy < MaxEnergy(agents[p])
          /\ last.agents[p].hp < MaxHp(agents[p])
          /\ 3 * agents[p].energy < 2 * MaxEnergy(agents[p])
          /\ 10 * agents[p].hp <= 7 * MaxHp(agents[p])

\* the mutation variates tried: the largest decrease, none, the largest
\* increase
MutationSteps == {0, 50, 99}

\* C35: for the parents of every birth, in each context (4 foraging, 3
\* combat, 3 flee strategies) and for every choice of the mutation deltas
\* among -0.1, 0 and +0.098, the total of the offspring's mutated, floored
\* weights before normalisation is positive (at least 1 - 0.1 x the number
\* of strategies); the newborn's distributions are not all-zero
C35_PositiveTotal ==
    last.op = "reproduce" =>
        \A context \in {"foraging", "combat", "flee"} :
            LET p == last.agents[last.actor].strategy_probs[context]
                q == last.agents[last.target].strategy_probs[context]
                n == Len(StrategiesOf(context))
                child == new_agents[Len(new_agents)].strategy_probs[context]
            IN /\ n \in {3, 4} /\ Len(p.w) = n /\ Len(q.w) = n
               /\ SumSeq(p.w) = p.d /\ SumSeq(q.w) = q.d
               /\ \A mu \in [1..n -> MutationSteps] :
                     /\ SumSeq(mutated(p, q, mu)) > 0
                     /\ SumSeq(mutated(p, q, mu))
                           >= (10 - n) * 10 * MUTATION_RATE_DEN * p.d * q.d
               /\ SumSeq(child.w) = child.d
               /\ \E k \in 1..n : child.w[k] > 0

\* a child was born with a weight floored to 0 although its parents' average
\* for that strategy was positive: the mutation took all of it away
C35_Witness ==
    /\ last.op = "reproduce"
    /\ \E context \in {"foraging", "combat", "flee"} :
          LET p == last.agents[last.actor].strategy_probs[context]
              q == last.agents[last.target].strategy_probs[context]
              child == new_agents[Len(new_agents)].strategy_probs[context]
          IN \E k \in 1..Len(child.w) :
                /\ child.w[k] = 0
                /\ p.w[k] + q.w[k] > 0

\* C36: an agent's time since its last reproduction is never more than its
\* age; it grows exactly as the age grows (by AGE_INCREMENT in the agent's
\* own update) and is set to 0, with the age unchanged, exactly when the
\* agent becomes a parent, so it is the advance of the parent's age since
\* its last birth; a parent of a birth had it above its species'
\* reproduction_cooldown and its age strictly inside the fertile window
C36_Cooldown ==
    /\ [](\A k \in 1..Len(Everyone) :
             /\ 0 <= Everyone[k].time_since_last_reproduction
             /\ Everyone[k].time_since_last_reproduction <= Everyone[k].age)
    /\ [](last.op = "reproduce" =>
            \A p \in {last.actor, last.target} :
                LET before == last.agents[p]
                IN /\ before.time_since_last_reproduction
                         > SPECIES_CONFIG[before.species].reproduction_cooldown
                               * AScale
                   /\ before.age > MIN_REPRODUCTION_AGE * AScale
                   /\ before.age < (MIN_REPRODUCTION_AGE + 10) * AScale
                   /\ agents[p].age = before.age
                   /\ agents[p].time_since_last_reproduction = 0)
    /\ [][\A k \in 1..Len(agents) :
             LET a == agents[k]
                 b == agents'[k]
                 grown == b.age - a.age
             IN /\ grown \in {0, AGE_INCREMENT}
                /\ \/ b.time_since_last_reproduction
                         = a.time_since_last_reproduction + grown
                   \/ /\ b.time_since_last_reproduction = 0
                      /\ grown = 0
                      /\ b.total_offspring = a.total_offspring + 1
                /\ b.total_offspring # a.total_offspring =>
                      b.time_since_last_reproduction = 0]_vars

\* an agent that was a parent before has become a parent again, as soon as
\* its age had advanced by more than the cooldown since that birth
C36_Witness ==
    /\ last.op = "reproduce"
    /\ \E p \in {last.actor, last.target} :
          LET before == last.agents[p]
              cooldown == SPECIES_CONFIG[before.species].reproduction_cooldown
                              * AScale
          IN /\ before.total_offspring >= 1
             /\ agents[p].total_offspring = before.total_offspring + 1
             /\ before.time_since_last_reproduction < before.age
             /\ before.time_since_last_reproduction > cooldown
             /\ before.time_since_last_reproduction - AGE_INCREMENT <= cooldown

\* the meals counted by all agents together
TotalMeals ==
    SumSeq([k \in 1..Len(Everyone) |-> Everyone[k].stats.meals])

\* C37: the meals counters of all agents add up to the number of resources
\* removed from the environment, and no removed resource is in it; an update
\* adds at most one meal, to the actor only, and then exactly one resource,
\* one that was still in the environment, is removed; no other step counts a
\* meal or removes a resource
C37_EatenOnce ==
    /\ TotalMeals = Cardinality(removed)
    /\ \A x \in 1..Len(resources) : resources[x].rid \notin removed
    /\ \A x, y \in 1..Len(resources) :
          resources[x].rid = resources[y].rid => x = y
    /\ last.op = "update" =>
          LET gained == agents[last.actor].stats.meals
                            - last.agents[last.actor].stats.meals
          IN /\ gained \in {0, 1}
             /\ Len(resources) = Len(last.resources) - gained
             /\ gained = 1 <=> last.log.ate # 0
             /\ gained = 1 =>
                   /\ \E x \in 1..Len(last.resources) :
                         last.resources[x].rid = last.log.ate
                   /\ last.log.ate \in removed
             /\ \A k \in 1..Len(agents) :
                   k # last.actor =>
                       agents[k].stats.meals = last.agents[k].stats.meals
    /\ last.op \in {"learn_from", "not_nearby", "skip", "reproduce", "no_mate",
                    "end_tick"} =>
          /\ resources = last.resources
          /\ \A k \in 1..Len(last.agents) :
                agents[k].stats.meals = last.agents[k].stats.meals

\* two foraging agents stood within eating distance of one resource in one
\* tick: the first updated has eaten it, the second found it gone and ate
\* nothing
C37_Witness ==
    /\ last.op = "update"
    /\ last.log.strategy \in {"WideView", "FastMove", "RandomWalk", "Ambush"}
    /\ last.log.ate = 0
    /\ \E k \in 1..(last.actor - 1) :
          /\ hist.last_turn[k] = ticks
          /\ agents[k].stats.meals = 1
          /\ removed = {Contest.resources[1].rid}
          /\ TotalMeals = 1
          /\ DistLT(last.agents[last.actor].position,
                    Contest.resources[1].position, 15 * PScale)

\* the agents as they are now, as a world
Now == [agents |-> agents, resources |-> resources, log |-> NoLog]

\* agents i and j are alive, of different species, each the nearest live
\* enemy of the other within the other's view range, and both of positive
\* fitness
Matched(i, j) ==
    /\ agents[i].state # "dead" /\ agents[j].state # "dead"
    /\ agents[i].species # agents[j].species
    /\ DistLT(agents[i].position, agents[j].position,
              Min2(Config(agents[i]).view_range,
                   Config(agents[j]).view_range) * PScale)
    /\ \A k \in 1..Len(agents) :
          (agents[k].state # "dead" /\ agents[k].species # agents[i].species)
              => distance2(agents[i].position, agents[j].position)
                    <= distance2(agents[i].position, agents[k].position)
    /\ \A k \in 1..Len(agents) :
          (agents[k].state # "dead" /\ agents[k].species # agents[j].species)
              => distance2(agents[j].position, agents[i].position)
                    <= distance2(agents[j].position, agents[k].position)
    /\ nearest_agent(Now, i, enemies_within(Now, i,
                        Config(agents[i]).view_range * PScale)) = j
    /\ nearest_agent(Now, j, enemies_within(Now, j,
                        Config(agents[j]).view_range * PScale)) = i
    /\ calculate_fitness(agents[i]).n > 0
    /\ calculate_fitness(agents[j]).n > 0

\* C38: in no reachable state does should_fight hold for both of two
\* matched agents
C38_NoMutualFight ==
    \A i, j \in 1..Len(agents) :
        Matched(i, j) => ~(should_fight(Now, i) /\ should_fight(Now, j))

\* an agent has been updated and is left matched with an enemy, both with
\* energy to fight and neither 20% fitter than the other: should_fight
\* holds for neither, and the agent did not fight
C38_Witness ==
    \E i, j \in 1..Len(agents) :
        /\ last.op = "update"
        /\ i = last.actor
        /\ agents[i].state \notin {"fighting", "dead"}
        /\ Matched(i, j)
        /\ agents[i].energy * 10 >= MaxEnergy(agents[i]) * 4
        /\ agents[j].energy * 10 >= MaxEnergy(agents[j]) * 4
        /\ ~should_fight(Now, i)
        /\ ~should_fight(Now, j)

\* of two matched agents the one that is more than 20% fitter should fight
\* and the other should not
C38_OneSidedSeen ==
    \E i, j \in 1..Len(agents) :
        /\ last.op = "update"
        /\ i = last.actor
        /\ agents[i].state = "fighting"
        /\ Matched(i, j)
        /\ agents[j].energy * 10 >= MaxEnergy(agents[j]) * 4
        /\ should_fight(Now, i)
        /\ ~should_fight(Now, j)

\* no agent has more hp or more energy than before the last call
NoneRestored ==
    \A k \in 1..Len(last.agents) :
        /\ agents[k].hp <= last.agents[k].hp
        /\ agents[k].energy <= last.agents[k].energy

\* C39: an update in which the agent does not eat lowers its energy by at
\* least METABOLISM_RATE and does not raise its hp; an update in which it
\* eats is one that dispatched a foraging strategy and left it 'foraging';
\* an update never raises the hp or energy of another agent, and learning,
\* reproduction, the passing over of a dead agent, the end of an iteration
\* and the environment never raise those of any agent
C39_RestoredByEating ==
    /\ last.op = "update" =>
          LET before == last.agents[last.actor]
              after == agents[last.actor]
          IN /\ before.state # "dead"
             /\ last.log.ate = 0 =>
                   /\ after.energy <= before.energy - METABOLISM_RATE
                   /\ after.hp <= before.hp
             /\ last.log.ate # 0 =>
                   /\ after.state = "foraging"
                   /\ last.log.strategy
                         \in {"WideView", "FastMove", "RandomWalk", "Ambush"}
                   /\ after.stats.meals = before.stats.meals + 1
             /\ \A k \in 1..Len(last.agents) :
                   k # last.actor =>
                       /\ agents[k].hp <= last.agents[k].hp
                       /\ agents[k].energy <= last.agents[k].energy
    /\ last.op \in {"learn_from", "not_nearby", "skip", "reproduce", "no_mate",
                    "end_tick", "environment.update"} => NoneRestored

\* an update in which the agent ate has raised both its hp and its energy,
\* and changed the hp and energy of no other agent
C39_Witness ==
    /\ last.op = "update"
    /\ last.log.ate # 0
    /\ agents[last.actor].hp > last.agents[last.actor].hp
    /\ agents[last.actor].energy > last.agents[last.actor].energy
    /\ \A k \in 1..Len(last.agents) :
          k # last.actor =>
              /\ agents[k].hp = last.agents[k].hp
              /\ agents[k].energy = last.agents[k].energy

\* a hungry agent foraged, found nothing to eat, and lost energy
C39_UnfedSeen ==
    /\ last.op = "update"
    /\ last.log.ate = 0
    /\ agents[last.actor].state = "foraging"
    /\ agents[last.actor].energy
          <= last.agents[last.actor].energy - METABOLISM_RATE
    /\ agents[last.actor].hp = last.agents[last.actor].hp

\* an update in which the agent ate at full hp has not raised its hp
C39_FullHpFedSeen ==
    /\ last.op = "update"
    /\ last.log.ate # 0
    /\ agents[last.actor].hp = last.agents[last.actor].hp

====
